---- MODULE Spec2Model ----
(***************************************************************************)
(* BillGuard AI (src/app.py): the structured analysis and risk-scoring     *)
(* helpers, modelled as operators over strings, and the calls that apply   *)
(* them, modelled as actions.                                              *)
(*                                                                         *)
(* Python str is the TLA+ string; a character is a string of length 1.     *)
(* Money (Python float) is an integer number of cents; the one float that  *)
(* is not a number of cents, inf, is the value Inf.  Floating-point        *)
(* rounding below a cent is not modelled.                                  *)
(***************************************************************************)
EXTENDS Integers, Sequences, FiniteSets, TLC

VARIABLES
    fn,      \* the helper being called
    pc,      \* "call" before the helper runs, "done" once it has returned
    args,    \* its arguments, in the order of its signature
    ret,     \* what it returned (None until pc = "done")
    score,   \* compute_risk_score's local `score` just before the clamp
    prev,    \* what is kept of the calls before this one, <<>> when there is none
    session, \* st.session_state
    widgets, \* the values of the input widgets of the app page
    screen   \* what the last run of main has put on the page

vars == <<fn, pc, args, ret, score, prev, session, widgets, screen>>

\* the variables of a browser session; the calls of the helpers leave them alone
ui == <<session, widgets, screen>>

None == "None"

\* the keys main bootstraps, with their defaults
SessionDefaults ==
    [page |-> "landing", bill_text |-> "", insurance_text |-> "", last_analysis |-> "",
     last_bill |-> "", last_insurance |-> "", analysis_ready |-> FALSE,
     chat_history |-> <<>>]

\* the API key field and the two file uploaders before the user has touched them;
\* an uploader holds <<>> or one file
WidgetDefaults == [api_key |-> "", provider_upload |-> <<>>, insurance_upload |-> <<>>]

\* a page on which nothing has been rendered
BlankScreen ==
    [page |-> "", notices |-> <<>>, stream |-> <<>>, analysis |-> <<>>,
     fallback |-> <<>>, chat |-> <<>>]

\* no browser session: the state of ui while a helper is called on its own
NoSession == session = SessionDefaults /\ widgets = WidgetDefaults /\ screen = BlankScreen

(***************************************************************************)
(* Bounds of the model.                                                    *)
(***************************************************************************)
MaxLen == 4          \* longest fragment drawn character by character

(***************************************************************************)
(* Python str operations.                                                  *)
(***************************************************************************)
\* s[i-1:i] for a 1-based i: the character at i, "" outside the string
Ch(s, i) == IF 1 <= i /\ i <= Len(s) THEN SubSeq(s, i, i) ELSE ""

Min(a, b) == IF a <= b THEN a ELSE b

Max(a, b) == IF a >= b THEN a ELSE b

\* s[i-1:] for a 1-based i
From(s, i) == SubSeq(s, i, Len(s))

\* s.startswith(sub, i-1)
StartsWithAt(s, sub, i) ==
    /\ i >= 1
    /\ i + Len(sub) - 1 <= Len(s)
    /\ SubSeq(s, i, i + Len(sub) - 1) = sub

\* sub in s
Contains(s, sub) ==
    LET n == Len(sub)
    IN  \E i \in 1..(Len(s) - n + 1) : SubSeq(s, i, i + n - 1) = sub

\* s.find(sub) + 1: the 1-based index of the first occurrence, 0 when there is none
Find(s, sub) ==
    LET hits == {i \in 1..(Len(s) - Len(sub) + 1) : StartsWithAt(s, sub, i)}
    IN  IF hits = {} THEN 0 ELSE CHOOSE i \in hits : \A j \in hits : i <= j

UpperLetters == "ABCDEFGHIJKLMNOPQRSTUVWXYZ"

LowerLetters == "abcdefghijklmnopqrstuvwxyz"

\* the lower-case letter of each upper-case letter
ToLower == [c \in {Ch(UpperLetters, i) : i \in 1..26} |->
              Ch(LowerLetters, CHOOSE i \in 1..26 : Ch(UpperLetters, i) = c)]

\* the upper-case letter of each lower-case letter
ToUpper == [c \in {Ch(LowerLetters, i) : i \in 1..26} |->
              Ch(UpperLetters, CHOOSE i \in 1..26 : Ch(LowerLetters, i) = c)]

LowerChar(c) == IF c \in DOMAIN ToLower THEN ToLower[c] ELSE c

UpperChar(c) == IF c \in DOMAIN ToUpper THEN ToUpper[c] ELSE c

\* The recursions over a string halve it, so that their depth stays logarithmic.
RECURSIVE Lower(_)
\* s.lower()
Lower(s) ==
    IF Len(s) <= 1 THEN LowerChar(s)
    ELSE Lower(SubSeq(s, 1, Len(s) \div 2)) \o Lower(From(s, Len(s) \div 2 + 1))

RECURSIVE Upper(_)
\* s.upper()
Upper(s) ==
    IF Len(s) <= 1 THEN UpperChar(s)
    ELSE Upper(SubSeq(s, 1, Len(s) \div 2)) \o Upper(From(s, Len(s) \div 2 + 1))

\* str.isspace() of one character, and the regex class \s
IsSpace(c) == c \in {" ", "\t", "\n", "\r", "\f"}

\* the regex class \d
IsDigit(c) == c \in {"0", "1", "2", "3", "4", "5", "6", "7", "8", "9"}

\* s.strip()
Strip(s) ==
    IF \A i \in 1..Len(s) : IsSpace(Ch(s, i)) THEN ""
    ELSE LET first == CHOOSE i \in 1..Len(s) :
                        ~IsSpace(Ch(s, i)) /\ \A j \in 1..(i - 1) : IsSpace(Ch(s, j))
             last  == CHOOSE i \in 1..Len(s) :
                        ~IsSpace(Ch(s, i)) /\ \A j \in (i + 1)..Len(s) : IsSpace(Ch(s, j))
         IN  SubSeq(s, first, last)

\* s.rstrip(c) for a single character c
RStripChar(s, c) ==
    IF \A i \in 1..Len(s) : Ch(s, i) = c THEN ""
    ELSE LET last == CHOOSE i \in 1..Len(s) :
                        Ch(s, i) # c /\ \A j \in (i + 1)..Len(s) : Ch(s, j) = c
         IN  SubSeq(s, 1, last)

RECURSIVE Replace(_, _)
\* s.replace(c, "") for a single character c
Replace(s, c) ==
    IF Len(s) <= 1 THEN (IF s = c THEN "" ELSE s)
    ELSE Replace(SubSeq(s, 1, Len(s) \div 2), c) \o Replace(From(s, Len(s) \div 2 + 1), c)

RECURSIVE Split(_, _)
\* s.split(c) for a single character c
Split(s, c) ==
    IF ~Contains(s, c) THEN <<s>>
    ELSE LET i == Find(s, c)
         IN  <<SubSeq(s, 1, i - 1)>> \o Split(From(s, i + 1), c)

RECURSIVE Join(_, _)
\* sep.join(parts)
Join(parts, sep) ==
    IF parts = <<>> THEN ""
    ELSE IF Len(parts) = 1 THEN parts[1]
    ELSE parts[1] \o sep \o Join(Tail(parts), sep)

\* the line boundaries of str.splitlines() that the model's texts use
IsLineBreak(c) == c \in {"\n", "\r", "\f"}

RECURSIVE SplitLines(_)
\* s.splitlines(): "\r\n" is one boundary, and a final boundary opens no line
SplitLines(s) ==
    IF s = "" THEN <<>>
    ELSE IF \A i \in 1..Len(s) : ~IsLineBreak(Ch(s, i)) THEN <<s>>
    ELSE LET i == CHOOSE k \in 1..Len(s) :
                    /\ IsLineBreak(Ch(s, k))
                    /\ \A j \in 1..(k - 1) : ~IsLineBreak(Ch(s, j))
             n == IF Ch(s, i) = "\r" /\ i < Len(s) /\ Ch(s, i + 1) = "\n"
                  THEN i + 2 ELSE i + 1
         IN  <<SubSeq(s, 1, i - 1)>> \o SplitLines(From(s, n))

RECURSIVE Repeat(_, _)
\* s * n
Repeat(s, n) ==
    IF n = 0 THEN ""
    ELSE IF n = 1 THEN s
    ELSE Repeat(s, n \div 2) \o Repeat(s, n - n \div 2)

\* every string over `alphabet` of length at most n
RECURSIVE StringsUpTo(_, _)
StringsUpTo(alphabet, n) ==
    IF n = 0 THEN {""}
    ELSE LET shorter == StringsUpTo(alphabet, n - 1)
         IN  shorter \cup {s \o c : s \in shorter, c \in alphabet}

(***************************************************************************)
(* Python float                                                            *)
(***************************************************************************)
\* float("inf"): above every number of cents
Inf == 2147483647

\* 2**1024 - 2**970: a decimal integer at or above it rounds to inf
FloatOverflow ==
    "179769313486231580793728971405303415079934132710037826936173778980444968292764750946649017977587207096330286416692887910946555547851940402630657488671505820681908902000708383676273854845817711531764475730270069855571366959622842914819860834936475292719074168444365510704342711559699508093042880177904174497792"

DigitValue(c) == Find("0123456789", c) - 1

\* the digits without their leading zeros
StripZeros(digits) ==
    IF \A i \in 1..Len(digits) : Ch(digits, i) = "0" THEN ""
    ELSE LET first == CHOOSE i \in 1..Len(digits) :
                        Ch(digits, i) # "0" /\ \A j \in 1..(i - 1) : Ch(digits, j) = "0"
         IN  From(digits, first)

RECURSIVE DecimalValue(_)
DecimalValue(digits) ==
    IF digits = "" THEN 0
    ELSE 10 * DecimalValue(SubSeq(digits, 1, Len(digits) - 1))
         + DigitValue(Ch(digits, Len(digits)))

\* a < b for two digit strings of the same length
DigitsLess(a, b) ==
    \E i \in 1..Len(a) :
        /\ DigitValue(Ch(a, i)) < DigitValue(Ch(b, i))
        /\ \A j \in 1..(i - 1) : Ch(a, j) = Ch(b, j)

\* whether float(text) returns, for a text of digits with at most one "." in it:
\* it raises ValueError when the text has no digit
IsFloatLiteral(text) == \E i \in 1..Len(text) : IsDigit(Ch(text, i))

\* float(text) for such a text
ParseFloat(text) ==
    LET dot      == Find(text, ".")
        whole    == StripZeros(IF dot = 0 THEN text ELSE SubSeq(text, 1, dot - 1))
        fraction == IF dot = 0 THEN "" ELSE From(text, dot + 1)
        cents    == DecimalValue(SubSeq(fraction \o "00", 1, 2))
    IN  IF Len(whole) > Len(FloatOverflow) THEN Inf
        ELSE IF Len(whole) = Len(FloatOverflow) /\ ~DigitsLess(whole, FloatOverflow) THEN Inf
        ELSE 100 * DecimalValue(whole) + cents

(***************************************************************************)
(* extract_money                                                           *)
(***************************************************************************)
\* the class [\d,]
IsMoneyChar(c) == IsDigit(c) \/ c = ","

\* where \s* ends when it starts at i: the first index from i on that holds no space
SkipSpaces(s, i) ==
    CHOOSE e \in i..(Len(s) + 1) :
        /\ e = Len(s) + 1 \/ ~IsSpace(Ch(s, e))
        /\ \A j \in i..(e - 1) : IsSpace(Ch(s, j))

\* where [\d,]* ends when it starts at i
SkipMoneyChars(s, i) ==
    CHOOSE e \in i..(Len(s) + 1) :
        /\ e = Len(s) + 1 \/ ~IsMoneyChar(Ch(s, e))
        /\ \A j \in i..(e - 1) : IsMoneyChar(Ch(s, j))

\* where \$?\s* ends when it starts at i
MoneyGroupStart(s, i) ==
    SkipSpaces(s, IF Ch(s, i) = "$" THEN i + 1 ELSE i)

\* whether \$?\s*([\d,]+(?:\.\d{1,2})?) matches at i
MoneyMatchesAt(s, i) ==
    LET g == MoneyGroupStart(s, i)
    IN  g <= Len(s) /\ IsMoneyChar(Ch(s, g))

\* where (?:\.\d{1,2})? ends when it starts at i
SkipDecimals(s, i) ==
    IF i + 1 <= Len(s) /\ Ch(s, i) = "." /\ IsDigit(Ch(s, i + 1))
    THEN IF i + 2 <= Len(s) /\ IsDigit(Ch(s, i + 2)) THEN i + 3 ELSE i + 2
    ELSE i

\* whether re.search(r"\$?\s*([\d,]+(?:\.\d{1,2})?)", value) finds a match
MoneyMatches(value) == \E i \in 1..Len(value) : MoneyMatchesAt(value, i)

\* group(1) of the leftmost match
MoneyGroup(value) ==
    LET i == CHOOSE k \in 1..Len(value) :
                /\ MoneyMatchesAt(value, k)
                /\ \A j \in 1..(k - 1) : ~MoneyMatchesAt(value, j)
        g == MoneyGroupStart(value, i)
        e == SkipDecimals(value, SkipMoneyChars(value, g))
    IN  SubSeq(value, g, e - 1)

extract_money(value) ==
    IF value = "" THEN 0
    ELSE IF ~MoneyMatches(value) THEN 0
    ELSE LET cleaned == Replace(MoneyGroup(value), ",")
         IN  IF ~IsFloatLiteral(cleaned) THEN 0 ELSE ParseFloat(cleaned)

(***************************************************************************)
(* The calls                                                               *)
(***************************************************************************)
MoneyAlphabet == {"a", " ", "$", ",", ".", "1", "0"}

MoneyExamples ==
    {"Total billed: $4,000", "no numbers here", "Patient owes, after insurance: $1,800",
     "$ 12.5", "CPT 99214: $280.755", "$" \o Repeat("9", Len(FloatOverflow))}

MoneyFragments == StringsUpTo(MoneyAlphabet, MaxLen) \cup MoneyExamples

InitMoney ==
    /\ fn = "extract_money"
    /\ pc = "call"
    /\ args \in {<<value>> : value \in MoneyFragments}
    /\ ret = None
    /\ score = None
    /\ prev = <<>>
    /\ NoSession

CallExtractMoney ==
    /\ fn = "extract_money"
    /\ pc = "call"
    /\ ret' = extract_money(args[1])
    /\ pc' = "done"
    /\ UNCHANGED <<fn, args, score, prev>>
    /\ UNCHANGED ui

NextMoney == CallExtractMoney

SpecMoney == InitMoney /\ [][NextMoney]_vars

(***************************************************************************)
(* flag_severity                                                           *)
(***************************************************************************)
SeverityLabels ==
    <<"critical", "important", "significant", "moderate", "low", "worth asking">>

RECURSIVE ScanLabels(_, _, _)
\* the for loop over the labels from the k-th on: the first one that occurs in
\* `lower` is returned, "review" when the loop runs out
ScanLabels(lower, labels, k) ==
    IF k > Len(labels) THEN "review"
    ELSE IF Contains(lower, labels[k]) THEN labels[k]
    ELSE ScanLabels(lower, labels, k + 1)

\* a plausible slip: the label that occurs first in the text wins, not the first
\* of the list
flag_severity_ByPosition(flag_text) ==
    LET lower == Lower(flag_text)
        found == {k \in 1..Len(SeverityLabels) : Contains(lower, SeverityLabels[k])}
    IN  IF found = {} THEN "review"
        ELSE SeverityLabels[CHOOSE k \in found :
                \A j \in found : Find(lower, SeverityLabels[k]) <= Find(lower, SeverityLabels[j])]

flag_severity(flag_text) ==
    LET lower == Lower(flag_text)
    IN  ScanLabels(lower, SeverityLabels, 1)

MaxWords == 3        \* most fragments joined into one flag text

FlagWords ==
    {"CRITICAL:", "Important", "significant", "Moderate", "low", "worth asking",
     "allowed", "worth", "asking", "charge"}

FlagExamples ==
    {"CRITICAL: Duplicate lab panel charge of $650 detected...", "no keyword here",
     "Worth  asking", "LOW | Slow refund of a Significant, important balance"}

RECURSIVE SeqsUpTo(_, _)
\* every sequence over `items` of length at most n
SeqsUpTo(items, n) ==
    IF n = 0 THEN {<<>>}
    ELSE LET shorter == SeqsUpTo(items, n - 1)
         IN  shorter \cup {Append(q, x) : q \in shorter, x \in items}

FlagTexts == {Join(q, " ") : q \in SeqsUpTo(FlagWords, MaxWords)} \cup FlagExamples

InitSeverity ==
    /\ fn = "flag_severity"
    /\ pc = "call"
    /\ args \in {<<flag_text>> : flag_text \in FlagTexts}
    /\ ret = None
    /\ score = None
    /\ prev = <<>>
    /\ NoSession

CallFlagSeverity ==
    /\ fn = "flag_severity"
    /\ pc = "call"
    /\ ret' = flag_severity(args[1])
    /\ pc' = "done"
    /\ UNCHANGED <<fn, args, score, prev>>
    /\ UNCHANGED ui

NextSeverity == CallFlagSeverity

SpecSeverity == InitSeverity /\ [][NextSeverity]_vars

(***************************************************************************)
(* Claims about flag_severity                                              *)
(***************************************************************************)
SeverityReturned == fn = "flag_severity" /\ pc = "done"

\* the keywords in the order C10 gives them
C10_Keywords ==
    <<"critical", "important", "significant", "moderate", "low", "worth asking">>

\* C10: flag_severity returns the first keyword of [critical, important,
\* significant, moderate, low, worth asking] that occurs in the lower-cased text,
\* wherever in the text the keywords stand, and "review" when none occurs; the
\* result is one of these seven labels.
C10_FirstKeywordInOrder ==
    SeverityReturned =>
        LET lower  == Lower(args[1])
            occurs == {k \in 1..6 : Contains(lower, C10_Keywords[k])}
        IN  /\ ret \in {C10_Keywords[k] : k \in 1..6} \cup {"review"}
            /\ \A k \in 1..6 :
                  (ret = C10_Keywords[k])
                      <=> (k \in occurs /\ \A j \in 1..(k - 1) : j \notin occurs)
            /\ (ret = "review") <=> (occurs = {})
            /\ (args[1] = "CRITICAL: Duplicate lab panel charge of $650 detected...")
                    => (ret = "critical")
            /\ (args[1] = "no keyword here") => (ret = "review")

\* a text in which a later keyword of the list stands before an earlier one
C10_Witness ==
    /\ SeverityReturned
    /\ LET lower == Lower(args[1])
       IN  \E j, k \in 1..6 :
             /\ j < k
             /\ Contains(lower, C10_Keywords[j])
             /\ Contains(lower, C10_Keywords[k])
             /\ Find(lower, C10_Keywords[k]) < Find(lower, C10_Keywords[j])
             /\ ret = C10_Keywords[j]

(***************************************************************************)
(* parse_itemized_lines                                                    *)
(***************************************************************************)
\* re.sub(r"^[-*]\s*", "", line)
RemoveBullet(line) ==
    IF Ch(line, 1) \in {"-", "*"} THEN From(line, SkipSpaces(line, 2)) ELSE line

\* [part.strip() for part in clean.split("|")]
StrippedParts(clean) ==
    LET split == Split(clean, "|")
    IN  [i \in 1..Len(split) |-> Strip(split[i])]

\* a plausible slip: > 3 for >= 3
ItemizedRow_MoreThanThree(line) ==
    LET clean == RemoveBullet(line)
        parts == StrippedParts(clean)
    IN  IF Len(parts) > 3 THEN <<parts[1], parts[2], parts[3]>>
        ELSE <<"Charge", "See note", clean>>

\* the body of the for loop: the row appended for one line
ItemizedRow(line) ==
    LET clean == RemoveBullet(line)
        parts == StrippedParts(clean)
    IN  IF Len(parts) >= 3 THEN <<parts[1], parts[2], parts[3]>>
        ELSE <<"Charge", "See note", clean>>

\* a plausible slip: a line that does not split into three parts is skipped
parse_itemized_lines_SkipMalformed(lines) ==
    LET rows == [i \in 1..Len(lines) |-> ItemizedRow(lines[i])]
    IN  SelectSeq(rows, LAMBDA row : row[1] # "Charge")

parse_itemized_lines(lines) == [i \in 1..Len(lines) |-> ItemizedRow(lines[i])]

MaxItemLen == 4      \* longest ITEMIZED line drawn character by character

MaxItemLines == 2    \* most ITEMIZED lines in one call

ItemAlphabet == {"-", "*", " ", "|", "a"}

ItemLines ==
    {"- Facility fee | $1,800 | Above the typical range",
     "* Lab panel | $650 x2 | Billed twice | ask for removal",
     "CPT 93000 | $450",
     "-- Charge | See note | already a fallback row",
     "- | |",
     "Medication $300"}

ItemizedInputs ==
    SeqsUpTo(ItemLines, MaxItemLines)
        \cup {<<line>> : line \in StringsUpTo(ItemAlphabet, MaxItemLen)}

InitItemized ==
    /\ fn = "parse_itemized_lines"
    /\ pc = "call"
    /\ args \in {<<lines>> : lines \in ItemizedInputs}
    /\ ret = None
    /\ score = None
    /\ prev = <<>>
    /\ NoSession

CallParseItemizedLines ==
    /\ fn = "parse_itemized_lines"
    /\ pc = "call"
    /\ ret' = parse_itemized_lines(args[1])
    /\ pc' = "done"
    /\ UNCHANGED <<fn, args, score, prev>>
    /\ UNCHANGED ui

NextItemized == CallParseItemizedLines

SpecItemized == InitItemized /\ [][NextItemized]_vars

(***************************************************************************)
(* Claims about parse_itemized_lines                                       *)
(***************************************************************************)
ItemizedReturned == fn = "parse_itemized_lines" /\ pc = "done"

\* C8: parse_itemized_lines returns one row per input line: the output is as long
\* as the input, and every row is a category, an amount and an explanation.
C8_OneRowPerLine ==
    ItemizedReturned =>
        /\ Len(ret) = Len(args[1])
        /\ \A i \in 1..Len(ret) : Len(ret[i]) = 3

\* several lines, one of which does not split into three parts
C8_Witness ==
    /\ ItemizedReturned
    /\ Len(args[1]) >= 2
    /\ \E i \in 1..Len(args[1]) : ~Contains(args[1][i], "|")
    /\ Len(ret) = Len(args[1])

\* the positions of "|" in a text, and the text between two positions
C9_Pipes(text) == {i \in 1..Len(text) : Ch(text, i) = "|"}

C9_Between(text, a, b) == Strip(SubSeq(text, a + 1, b - 1))

\* the line without its leading bullet marker (- or *) and the spaces after it
C9_Cleaned(line) ==
    IF line = "" \/ Ch(line, 1) \notin {"-", "*"} THEN line
    ELSE IF \A i \in 2..Len(line) : IsSpace(Ch(line, i)) THEN ""
    ELSE From(line, CHOOSE i \in 2..Len(line) :
                       ~IsSpace(Ch(line, i)) /\ \A j \in 2..(i - 1) : IsSpace(Ch(line, j)))

\* C9: for each line, after the leading bullet marker is removed, the row is the
\* first three |-separated parts, trimmed (further parts are ignored), when there
\* are at least three parts, and ("Charge", "See note", the cleaned line) when
\* there are fewer.
C9_RowOfEachLine ==
    ItemizedReturned =>
        \A i \in 1..Len(args[1]) :
            LET clean == C9_Cleaned(args[1][i])
                pipes == C9_Pipes(clean)
                p1    == CHOOSE p \in pipes : \A q \in pipes : p <= q
                p2    == CHOOSE p \in pipes \ {p1} : \A q \in pipes \ {p1} : p <= q
                rest  == {p \in pipes : p > p2} \cup {Len(clean) + 1}
                p3    == CHOOSE p \in rest : \A q \in rest : p <= q
            IN  /\ i <= Len(ret)
                /\ ret[i] = IF Cardinality(pipes) >= 2
                            THEN <<C9_Between(clean, 0, p1), C9_Between(clean, p1, p2),
                                   C9_Between(clean, p2, p3)>>
                            ELSE <<"Charge", "See note", clean>>

\* a bulleted line with more than three parts, next to a line with fewer than three
C9_Witness ==
    /\ ItemizedReturned
    /\ \E i, j \in 1..Len(args[1]) :
          /\ Ch(args[1][i], 1) \in {"-", "*"}
          /\ Cardinality(C9_Pipes(args[1][i])) >= 3
          /\ ret[i][3] = "Billed twice"
          /\ Cardinality(C9_Pipes(args[1][j])) < 2
          /\ ret[j][1] = "Charge"

(***************************************************************************)
(* parse_structured_sections                                               *)
(***************************************************************************)
SectionNames ==
    {"SUMMARY", "ITEMIZED", "INSURANCE", "FLAGS", "GUIDANCE", "ACTION_PLAN",
     "DISPUTE_LETTER", "PHONE_SCRIPT"}

\* the dict the function starts from: every section empty
EmptySections == [name \in SectionNames |-> <<>>]

\* a plausible slip: a heading outside the eight opens a section of its own
SectionStep_NewKey(state, line) ==
    LET stripped == Strip(line)
        upper    == Upper(RStripChar(stripped, ":"))
    IN  IF upper \in DOMAIN state.sections
        THEN [state EXCEPT !.current = upper]
        ELSE IF upper # "" /\ Ch(stripped, Len(stripped)) = ":"
        THEN [current |-> upper, sections |-> (upper :> <<>>) @@ state.sections]
        ELSE IF state.current # None /\ stripped # ""
        THEN [state EXCEPT !.sections[state.current] = Append(@, stripped)]
        ELSE state

\* the body of the for loop, on the locals `current` and `sections`
SectionStep(state, line) ==
    LET stripped == Strip(line)
        upper    == Upper(RStripChar(stripped, ":"))
    IN  IF upper \in DOMAIN state.sections
        THEN [state EXCEPT !.current = upper]
        ELSE IF state.current # None /\ stripped # ""
        THEN [state EXCEPT !.sections[state.current] = Append(@, stripped)]
        ELSE state

RECURSIVE SectionLoop(_, _)
\* the for loop over the lines
SectionLoop(state, lines) ==
    IF lines = <<>> THEN state
    ELSE SectionLoop(SectionStep(state, Head(lines)), Tail(lines))

\* a plausible slip: the cursor starts at the first section
parse_structured_sections_StartInSummary(raw_output) ==
    SectionLoop([current |-> "SUMMARY", sections |-> EmptySections],
                SplitLines(raw_output)).sections

parse_structured_sections(raw_output) ==
    SectionLoop([current |-> None, sections |-> EmptySections],
                SplitLines(raw_output)).sections

MaxNarrativeLines == 3   \* most lines in a narrative drawn line by line

NarrativeLines ==
    {"SUMMARY", "flags:", "  Itemized::  ", "NOTES:", "SUMMARY :",
     "- first line", "  second line\t", ""}

NarrativeExamples ==
    {"Here is the audit.\r\nSUMMARY\r\n- Mostly clean.\r\n\r\nAPPENDIX\r\n- Codes.\rFLAGS:\n- Low: x",
     "preface\n\n"}

Narratives ==
    {Join(q, "\n") : q \in SeqsUpTo(NarrativeLines, MaxNarrativeLines)} \cup NarrativeExamples

InitSections ==
    /\ fn = "parse_structured_sections"
    /\ pc = "call"
    /\ args \in {<<raw_output>> : raw_output \in Narratives}
    /\ ret = None
    /\ score = None
    /\ prev = <<>>
    /\ NoSession

CallParseStructuredSections ==
    /\ fn = "parse_structured_sections"
    /\ pc = "call"
    /\ ret' = parse_structured_sections(args[1])
    /\ pc' = "done"
    /\ UNCHANGED <<fn, args, score, prev>>
    /\ UNCHANGED ui

NextSections == CallParseStructuredSections

SpecSections == InitSections /\ [][NextSections]_vars

(***************************************************************************)
(* Claims about parse_structured_sections                                  *)
(***************************************************************************)
SectionsReturned == fn = "parse_structured_sections" /\ pc = "done"

\* C3: parse_structured_sections returns a mapping with exactly the eight keys
\* SUMMARY, ITEMIZED, INSURANCE, FLAGS, GUIDANCE, ACTION_PLAN, DISPUTE_LETTER and
\* PHONE_SCRIPT, each a sequence of lines (possibly empty), whatever the input.
C3_ExactlyEightKeys ==
    SectionsReturned =>
        /\ DOMAIN ret = {"SUMMARY", "ITEMIZED", "INSURANCE", "FLAGS", "GUIDANCE",
                         "ACTION_PLAN", "DISPUTE_LETTER", "PHONE_SCRIPT"}
        /\ \A name \in DOMAIN ret : ret[name] \in Seq(STRING)

\* the name a line announces: trimmed, without trailing colons
C4_Name(line) == RStripChar(Strip(line), ":")

C4_IsRecognizedHeading(line) == Upper(C4_Name(line)) \in SectionNames

\* a heading of the narrative's shape (capital letters and underscores on a line
\* of their own, an optional colon after them) whose name is not one of the eight
C4_IsUnrecognizedHeading(line) ==
    /\ C4_Name(line) # ""
    /\ \A i \in 1..Len(C4_Name(line)) :
          Ch(C4_Name(line), i) \in DOMAIN ToLower \cup {"_"}
    /\ ~C4_IsRecognizedHeading(line)

\* a narrative with a repeated heading, an unrecognized heading and a line before
\* the first heading
C3_Witness ==
    /\ SectionsReturned
    /\ LET lines == SplitLines(args[1])
       IN  /\ \E i, j \in 1..Len(lines) :
                i < j /\ C4_IsRecognizedHeading(lines[i]) /\ Strip(lines[i]) = Strip(lines[j])
           /\ \E i \in 1..Len(lines) : C4_IsUnrecognizedHeading(lines[i])
           /\ ~C4_IsRecognizedHeading(lines[1])
    /\ DOMAIN ret = SectionNames

\* line i is no heading and stands before the first recognized heading
C4_BeforeFirstHeading(lines, i) == \A j \in 1..i : ~C4_IsRecognizedHeading(lines[j])

\* line i is no heading and the nearest heading above it is an unrecognized one
C4_UnderUnrecognizedHeading(lines, i) ==
    /\ ~C4_IsRecognizedHeading(lines[i])
    /\ ~C4_IsUnrecognizedHeading(lines[i])
    /\ \E h \in 1..(i - 1) :
          /\ C4_IsUnrecognizedHeading(lines[h])
          /\ \A j \in (h + 1)..(i - 1) :
                ~C4_IsRecognizedHeading(lines[j]) /\ ~C4_IsUnrecognizedHeading(lines[j])

\* the text of line i is the text of no other line of the narrative
C4_OccursOnce(lines, i) ==
    \A j \in 1..Len(lines) : j # i => Strip(lines[j]) # Strip(lines[i])

\* the sections of the result that hold the text of line i
C4_SectionsHolding(lines, i) ==
    {name \in DOMAIN ret : \E j \in 1..Len(ret[name]) : ret[name][j] = Strip(lines[i])}

\* C4 as claimed: every line before the first recognized heading and every line
\* under an unrecognized heading is in no section of the result.
C4_DiscardedOutsideSections ==
    SectionsReturned =>
        LET lines == SplitLines(args[1])
        IN  \A i \in 1..Len(lines) :
                (/\ C4_OccursOnce(lines, i)
                 /\ C4_BeforeFirstHeading(lines, i) \/ C4_UnderUnrecognizedHeading(lines, i))
                    => C4_SectionsHolding(lines, i) = {}

\* the section that is current at line i: the name of the last recognized heading
\* above it
C4_CurrentAt(lines, i) ==
    LET h == CHOOSE h \in 1..(i - 1) :
                /\ C4_IsRecognizedHeading(lines[h])
                /\ \A j \in (h + 1)..(i - 1) : ~C4_IsRecognizedHeading(lines[j])
    IN  Upper(C4_Name(lines[h]))

\* C4 as amended: every line before the first recognized heading is in no section
\* of the result; an unrecognized heading and the lines under it are discarded
\* only there, and below a recognized heading they are stored, trimmed, in the
\* section of the last recognized heading above them.
C4_DiscardedBeforeFirstHeading ==
    SectionsReturned =>
        LET lines == SplitLines(args[1])
        IN  \A i \in 1..Len(lines) :
                C4_OccursOnce(lines, i) =>
                    /\ C4_BeforeFirstHeading(lines, i) => C4_SectionsHolding(lines, i) = {}
                    /\ (/\ C4_IsUnrecognizedHeading(lines[i]) \/ C4_UnderUnrecognizedHeading(lines, i)
                        /\ Strip(lines[i]) # ""
                        /\ ~C4_BeforeFirstHeading(lines, i))
                           => C4_SectionsHolding(lines, i) = {C4_CurrentAt(lines, i)}

\* a line under an unrecognized heading that follows a recognized one, and a line
\* before the first heading
C4_Witness ==
    /\ SectionsReturned
    /\ LET lines == SplitLines(args[1])
       IN  /\ \E i \in 1..Len(lines) :
                /\ C4_OccursOnce(lines, i)
                /\ C4_UnderUnrecognizedHeading(lines, i)
                /\ Strip(lines[i]) # ""
                /\ ~C4_BeforeFirstHeading(lines, i)
                /\ C4_SectionsHolding(lines, i) = {C4_CurrentAt(lines, i)}
           /\ \E i \in 1..Len(lines) :
                /\ C4_OccursOnce(lines, i)
                /\ Strip(lines[i]) # ""
                /\ C4_BeforeFirstHeading(lines, i)
                /\ C4_SectionsHolding(lines, i) = {}

\* the name a line announces when one colon at its end is optional: the trimmed
\* line, or the trimmed line without its last character when that is a colon
C21_Names(line) ==
    LET trimmed == Strip(line)
    IN  {Upper(trimmed)} \cup
        (IF Ch(trimmed, Len(trimmed)) = ":"
         THEN {Upper(SubSeq(trimmed, 1, Len(trimmed) - 1))} ELSE {})

C21_IsHeading(line) == C21_Names(line) \cap SectionNames # {}

\* the section that is current when line i is read: the name of the last heading
\* above it, None before the first heading
C21_CurrentAt(lines, i) ==
    IF \A h \in 1..(i - 1) : ~C21_IsHeading(lines[h]) THEN None
    ELSE LET h == CHOOSE h \in 1..(i - 1) :
                     /\ C21_IsHeading(lines[h])
                     /\ \A j \in (h + 1)..(i - 1) : ~C21_IsHeading(lines[j])
         IN  CHOOSE name \in C21_Names(lines[h]) \cap SectionNames : TRUE

RECURSIVE C21_Listed(_, _, _)
\* the trimmed non-blank non-heading lines among the first n that are read while
\* section `name` is current, in narrative order
C21_Listed(lines, name, n) ==
    IF n = 0 THEN <<>>
    ELSE IF /\ ~C21_IsHeading(lines[n])
            /\ Strip(lines[n]) # ""
            /\ C21_CurrentAt(lines, n) = name
         THEN Append(C21_Listed(lines, name, n - 1), Strip(lines[n]))
         ELSE C21_Listed(lines, name, n - 1)

\* C21: a line is a heading exactly when its trimmed form, with an optional
\* trailing colon removed and upper-cased, is one of the eight names; a heading
\* sets the current section and is stored nowhere, and every non-blank
\* non-heading line read while a section is current is appended, trimmed, to
\* that section, so each section lists its lines in narrative order.
C21_HeadingsAndLines ==
    SectionsReturned =>
        LET lines == SplitLines(args[1])
        IN  \A name \in SectionNames : ret[name] = C21_Listed(lines, name, Len(lines))

(***************************************************************************)
(* parse_bill_input and estimate_local_risk                                *)
(***************************************************************************)
\* the body of the for loop of parse_bill_input, on the local `totals`
BillStep(totals, line) ==
    LET lower == Lower(line)
    IN  IF Contains(lower, "total billed")
        THEN [totals EXCEPT !.total_billed = extract_money(line)]
        ELSE IF Contains(lower, "insurance paid")
        THEN [totals EXCEPT !.insurance_paid = extract_money(line)]
        ELSE IF Contains(lower, "patient responsibility") \/ Contains(lower, "patient owes")
        THEN [totals EXCEPT !.patient_responsibility = extract_money(line)]
        ELSE totals

RECURSIVE BillLoop(_, _)
BillLoop(totals, lines) ==
    IF lines = <<>> THEN totals
    ELSE BillLoop(BillStep(totals, Head(lines)), Tail(lines))

parse_bill_input(raw_text) ==
    BillLoop([total_billed |-> 0, insurance_paid |-> 0, patient_responsibility |-> 0],
             SplitLines(raw_text))

\* where facility fee:\s*\$? ends when it starts at i
FacilityGroupStart(text, i) ==
    LET j == SkipSpaces(text, i + Len("facility fee:"))
    IN  IF Ch(text, j) = "$" THEN j + 1 ELSE j

\* whether facility fee:\s*\$?([\d,]+) matches at i
FacilityMatchesAt(text, i) ==
    /\ StartsWithAt(text, "facility fee:", i)
    /\ IsMoneyChar(Ch(text, FacilityGroupStart(text, i)))

\* whether re.search(r"facility fee:\s*\$?([\d,]+)", text, re.IGNORECASE) finds a
\* match in the lower-cased text
FacilityMatches(text) == \E i \in 1..Len(text) : FacilityMatchesAt(text, i)

\* facility_match.group(1), of the leftmost match
FacilityGroup(text) ==
    LET hits == {i \in 1..Len(text) : FacilityMatchesAt(text, i)}
        i    == CHOOSE k \in hits : \A j \in hits : k <= j
        g    == FacilityGroupStart(text, i)
    IN  SubSeq(text, g, SkipMoneyChars(text, g) - 1)

\* facility_fee * 0.2: the fee is a whole number of dollars, group(1) has no
\* decimal part
TimesPointTwo(amount) == IF amount = Inf THEN Inf ELSE amount \div 5

DuplicateLabFlag == "Possible duplicate lab panel charge detected."

FacilityFeeFlag == "Facility fee appears unusually high for the listed visit context."

BillSizeFlag == "Overall bill size is high enough to justify a manual audit."

\* a plausible slip: the facility fee contribution without its cap
FacilityContribution_NoCap(facility_fee) == TimesPointTwo(facility_fee)

\* min(400.0, facility_fee * 0.2)
FacilityContribution(facility_fee) == Min(40000, TimesPointTwo(facility_fee))

\* a plausible slip: the bill-size check appends its flag and adds nothing
estimate_local_risk_SizeFlagOnly(raw_text) ==
    LET text     == Lower(raw_text)
        lab      == Contains(text, "lab panel") /\ (Contains(text, "x2") \/ Contains(text, "×2"))
        fee      == IF FacilityMatches(text) THEN extract_money(FacilityGroup(text)) ELSE 0
        facility == FacilityMatches(text) /\ fee >= 150000
        size     == parse_bill_input(raw_text).total_billed >= 350000
    IN  << (IF lab THEN 65000 ELSE 0) + (IF facility THEN FacilityContribution(fee) ELSE 0),
           (IF lab THEN <<DuplicateLabFlag>> ELSE <<>>)
             \o (IF facility THEN <<FacilityFeeFlag>> ELSE <<>>)
             \o (IF size THEN <<BillSizeFlag>> ELSE <<>>) >>

\* the function returns the pair (risk, issues)
estimate_local_risk(raw_text) ==
    LET text     == Lower(raw_text)
        lab      == Contains(text, "lab panel") /\ (Contains(text, "x2") \/ Contains(text, "×2"))
        fee      == IF FacilityMatches(text) THEN extract_money(FacilityGroup(text)) ELSE 0
        facility == FacilityMatches(text) /\ fee >= 150000
        billed   == parse_bill_input(raw_text).total_billed
        size     == billed >= 350000
    IN  << (IF lab THEN 65000 ELSE 0)
             + (IF facility THEN FacilityContribution(fee) ELSE 0)
             + (IF size THEN 15000 ELSE 0),
           (IF lab THEN <<DuplicateLabFlag>> ELSE <<>>)
             \o (IF facility THEN <<FacilityFeeFlag>> ELSE <<>>)
             \o (IF size THEN <<BillSizeFlag>> ELSE <<>>) >>

SAMPLE_BILL ==
    "Visit: Chest pain evaluation\nFacility fee: $1,800\nCPT 71045: $800 (chest X-ray)\nCPT 93000: $450 (ECG)\nLab panel: $650 ×2\nMedication: $300\nTotal billed: $4,000\nInsurance paid: $2,200\nPatient responsibility: $1,800"

SAMPLE_BILL_CLEAN ==
    "Visit: Primary care follow-up\nOffice visit CPT 99214: $280\nBlood pressure check: $40\nTotal billed: $320\nInsurance paid: $220\nPatient responsibility: $100"

MaxBillLines == 3    \* most lines in a bill drawn line by line

BillLines ==
    {"Lab panel: $650 ×2", "LAB PANEL (X2)", "Lab panel: $650",
     "Facility fee: $1,800", "FACILITY FEE:\t2,400.50", "Facility fee: $1,499.99",
     "Total billed: $4,000", "Patient owes $1,800 x2"}

\* the sample bills, and bills just under a threshold or without an amount
BillExamples ==
    {SAMPLE_BILL, SAMPLE_BILL_CLEAN,
     "Facility fee: n/a",
     "Facility fee: $",
     "total billed $3,499.99",
     "Lab panel: $650 ×2\ntotal billed $3,499.99\nFacility fee: n/a",
     "Facility fee: 1500\nTOTAL BILLED 3500"}

Bills ==
    {Join(q, "\n") : q \in SeqsUpTo(BillLines, MaxBillLines)} \cup BillExamples

InitLocalRisk ==
    /\ fn = "estimate_local_risk"
    /\ pc = "call"
    /\ args \in {<<raw_text>> : raw_text \in Bills}
    /\ ret = None
    /\ score = None
    /\ prev = <<>>
    /\ NoSession

CallEstimateLocalRisk ==
    /\ fn = "estimate_local_risk"
    /\ pc = "call"
    /\ ret' = estimate_local_risk(args[1])
    /\ pc' = "done"
    /\ UNCHANGED <<fn, args, score, prev>>
    /\ UNCHANGED ui

NextLocalRisk == CallEstimateLocalRisk

SpecLocalRisk == InitLocalRisk /\ [][NextLocalRisk]_vars

(***************************************************************************)
(* Claims about estimate_local_risk                                        *)
(***************************************************************************)
LocalRiskReturned == fn = "estimate_local_risk" /\ pc = "done"

\* the bill of C2: its three lines and nothing else
C2_Bill == "Lab panel: $650 ×2\nFacility fee: $1,800\nTotal billed: $4,000"

C29_EstimateAndFlags ==
    LocalRiskReturned =>
        /\ (ret[1] = 0) <=> (ret[2] = <<>>)
        /\ (ret[2] # <<>>) => (15000 <= ret[1] /\ ret[1] <= 120000)

\* the lowest estimate with a flag (the bill size alone) is returned for a bill
\* whose facility fee is just under its threshold
C29_Witness ==
    /\ LocalRiskReturned
    /\ ret = <<15000, <<BillSizeFlag>>>>
    /\ FacilityMatches(Lower(args[1]))

(***************************************************************************)
(* compute_risk_score                                                      *)
(***************************************************************************)
\* a plausible slip: `if` for every `elif`, so that a line collects the points of
\* every rule that applies to it (and 6 when none does)
FlagPoints_EveryRule(flag) ==
    LET lower == Lower(flag)
        sum   == (IF Contains(lower, "critical") THEN 22 ELSE 0)
                 + (IF Contains(lower, "important") \/ Contains(lower, "significant")
                    THEN 14 ELSE 0)
                 + (IF Contains(lower, "moderate") THEN 8 ELSE 0)
                 + (IF Contains(lower, "low") \/ Contains(lower, "worth asking") THEN 4 ELSE 0)
    IN  IF sum = 0 THEN 6 ELSE sum

\* a plausible slip: "significant" is missing from the second rule
FlagPoints_SignificantMissing(flag) ==
    LET lower == Lower(flag)
    IN  IF Contains(lower, "critical") THEN 22
        ELSE IF Contains(lower, "important") THEN 14
        ELSE IF Contains(lower, "moderate") THEN 8
        ELSE IF Contains(lower, "low") \/ Contains(lower, "worth asking") THEN 4
        ELSE 6

\* the points the first loop adds for one line of FLAGS
FlagPoints(flag) ==
    LET lower == Lower(flag)
    IN  IF Contains(lower, "critical") THEN 22
        ELSE IF Contains(lower, "important") \/ Contains(lower, "significant") THEN 14
        ELSE IF Contains(lower, "moderate") THEN 8
        ELSE IF Contains(lower, "low") \/ Contains(lower, "worth asking") THEN 4
        ELSE 6

\* a plausible slip: `score = ` for `score += ` in the loop, which leaves the points
\* of the last line only
SumFlagPoints_LastLineOnly(flags) ==
    IF flags = <<>> THEN 0 ELSE FlagPoints(flags[Len(flags)])

RECURSIVE SumFlagPoints(_)
\* the first loop
SumFlagPoints(flags) ==
    IF flags = <<>> THEN 0 ELSE FlagPoints(Head(flags)) + SumFlagPoints(Tail(flags))

\* any(word in f.lower() for f in all_flags), given each f.lower()
AnyFlagMentions(lowered_flags, word) ==
    \E i \in 1..Len(lowered_flags) : Contains(lowered_flags[i], word)

\* whether \$\s*([\d,]+) matches at i
SavingsMatchesAt(text, i) ==
    Ch(text, i) = "$" /\ IsMoneyChar(Ch(text, SkipSpaces(text, i + 1)))

\* whether re.search(r"\$\s*([\d,]+)", text) finds a match
SavingsMatches(text) == \E i \in 1..Len(text) : SavingsMatchesAt(text, i)

\* m.group(1), of the leftmost match
SavingsGroup(text) ==
    LET hits == {i \in 1..Len(text) : SavingsMatchesAt(text, i)}
        i    == CHOOSE k \in hits : \A j \in hits : k <= j
        g    == SkipSpaces(text, i + 1)
    IN  SubSeq(text, g, SkipMoneyChars(text, g) - 1)

\* the points of the savings signal of the INSURANCE section
SavingsPoints(sections) ==
    LET insurance_text == Lower(Join(sections.INSURANCE, " "))
        idx            == Find(insurance_text, "potential")
        tail           == From(insurance_text, idx)
    IN  IF idx = 0 THEN 0
        ELSE IF ~SavingsMatches(tail) THEN 0
        ELSE LET savings == extract_money(SavingsGroup(tail))
             IN  IF savings > 100000 THEN 15
                 ELSE IF savings > 25000 THEN 8
                 ELSE IF savings > 0 THEN 3
                 ELSE 0

\* a plausible slip: the summary is searched as written, not lower-cased
SummaryAdjustment_CaseSensitive(sections) ==
    LET summary_text == Join(sections.SUMMARY, " ")
    IN  IF Contains(summary_text, "mostly clean") \/ Contains(summary_text, "mostly reasonable")
        THEN -12 ELSE 0

\* what a reassuring SUMMARY takes off the score
SummaryAdjustment(sections) ==
    LET summary_text == Lower(Join(sections.SUMMARY, " "))
    IN  IF Contains(summary_text, "mostly clean") \/ Contains(summary_text, "mostly reasonable")
        THEN -12 ELSE 0

\* a plausible slip: the points of the local flags without their cap
LocalFlagPoints_NoCap(local_flags) == Len(local_flags) * 8

\* min(len(local_flags) * 8, 16)
LocalFlagPoints(local_flags) == Min(Len(local_flags) * 8, 16)

\* f.lower() for each f of all_flags = sections["FLAGS"] + local_flags
LoweredFlags(sections, local_flags) ==
    LET all_flags == sections.FLAGS \o local_flags
    IN  [i \in 1..Len(all_flags) |-> Lower(all_flags[i])]

\* a plausible slip: 8 for every flag that mentions a duplicate
DuplicateBonus_PerFlag(lowered_flags) ==
    8 * Cardinality({i \in 1..Len(lowered_flags) : Contains(lowered_flags[i], "duplicate")})

\* if any("duplicate" in f.lower() for f in all_flags): score += 8
DuplicateBonus(lowered_flags) ==
    IF AnyFlagMentions(lowered_flags, "duplicate") THEN 8 ELSE 0

\* if any("balance bill" in f.lower() or "denied" in f.lower() ...): score += 6
DeniedBonus(lowered_flags) ==
    IF AnyFlagMentions(lowered_flags, "balance bill") \/ AnyFlagMentions(lowered_flags, "denied")
    THEN 6 ELSE 0

\* the local `score` when the return statement is reached
RawRiskScore(sections, local_flags) ==
    LET lowered == LoweredFlags(sections, local_flags)
    IN  SumFlagPoints(sections.FLAGS)
        + LocalFlagPoints(local_flags)
        + DuplicateBonus(lowered)
        + DeniedBonus(lowered)
        + SavingsPoints(sections)
        + SummaryAdjustment(sections)

\* a plausible slip: the score is capped but has no floor
ReturnScore_NoFloor(total) == Min(total, 95)

\* the return statement: max(5, min(score, 95))
ReturnScore(total) == Max(5, Min(total, 95))

compute_risk_score(sections, local_flags) ==
    ReturnScore(RawRiskScore(sections, local_flags))

MaxFlagLines == 3    \* most lines in the FLAGS section

\* one line for each branch of the first loop
ScoreFlagLines ==
    <<"- CRITICAL: Duplicate lab panel",
      "- Important: claim denied",
      "- Moderate or low: facility fee",
      "- Worth asking: allowed amount?",
      "- Medication has no code">>

\* The FLAGS sections: up to MaxFlagLines of the lines above, a line any number
\* of times.  The loop adds up the lines one by one and the any() tests ask for
\* one line that mentions a word, so the lists are drawn in one order of lines.
FlagSections ==
    UNION {{[i \in 1..n |-> ScoreFlagLines[pick[i]]] :
              pick \in {p \in [1..n -> 1..Len(ScoreFlagLines)] :
                           \A i \in 1..(n - 1) : p[i] <= p[i + 1]}} :
           n \in 0..MaxFlagLines}

\* the lists estimate_local_risk returns: its three flags, each there or not
LocalFlagLists ==
    {SelectSeq(<<DuplicateLabFlag, FacilityFeeFlag, BillSizeFlag>>, LAMBDA f : f \in chosen) :
        chosen \in SUBSET {DuplicateLabFlag, FacilityFeeFlag, BillSizeFlag}}

InsuranceSections ==
    {<<>>,
     <<"- Total billed: $4,000", "- Potential overcharge / savings opportunity: $1,160">>,
     <<"- Insurance paid: $2,200", "- POTENTIAL savings: about $ 250.75">>,
     <<"- Patient owes: $1,800", "- No potential savings were found">>}

SummarySections ==
    {<<>>,
     <<"- Two charges need a closer look.">>,
     <<"- The bill looks Mostly", "reasonable for this visit.">>}

ScoreSections ==
    {[name \in SectionNames |->
        CASE name = "FLAGS" -> flags
          [] name = "INSURANCE" -> insurance
          [] name = "SUMMARY" -> summary
          [] OTHER -> <<>>] :
        flags \in FlagSections,
        insurance \in InsuranceSections,
        summary \in SummarySections}

InitScore ==
    /\ fn = "compute_risk_score"
    /\ pc = "call"
    /\ args \in {<<sections, local_flags>> :
                    sections \in ScoreSections, local_flags \in LocalFlagLists}
    /\ ret = None
    /\ score = None
    /\ prev = <<>>
    /\ NoSession

CallComputeRiskScore ==
    /\ fn = "compute_risk_score"
    /\ pc = "call"
    /\ score' = RawRiskScore(args[1], args[2])
    /\ ret' = ReturnScore(score')
    /\ pc' = "done"
    /\ UNCHANGED <<fn, args, prev>>
    /\ UNCHANGED ui

MostlyCleanLine == "- Overall this bill looks Mostly Clean."

\* The same bill is analysed once more, with a narrative that differs from the
\* last one only in a SUMMARY line that says "mostly clean".
AnalyzeMostlyCleanNarrative ==
    /\ fn = "compute_risk_score"
    /\ pc = "done"
    /\ prev = <<>>
    /\ ~Contains(Lower(Join(args[1].SUMMARY, " ")), "mostly clean")
    /\ prev' = <<score, ret>>
    /\ args' = <<[args[1] EXCEPT !.SUMMARY = Append(@, MostlyCleanLine)], args[2]>>
    /\ pc' = "call"
    /\ ret' = None
    /\ score' = None
    /\ UNCHANGED fn
    /\ UNCHANGED ui

NextScore == CallComputeRiskScore \/ AnalyzeMostlyCleanNarrative

SpecScore == InitScore /\ [][NextScore]_vars

(***************************************************************************)
(* compute_risk_score called again with the same flags in another order     *)
(***************************************************************************)
\* the orders in which the elements of a list can be given
Reordered(list) ==
    {[i \in 1..Len(list) |-> list[p[i]]] : p \in Permutations(1..Len(list))}

InitReorder ==
    /\ fn = "compute_risk_score"
    /\ pc = "call"
    /\ args \in {<<[EmptySections EXCEPT !.FLAGS = flags], local_flags>> :
                    flags \in FlagSections, local_flags \in LocalFlagLists}
    /\ ret = None
    /\ score = None
    /\ prev = <<>>
    /\ NoSession

\* The call is repeated with the FLAGS lines and the local flags in any order;
\* prev keeps the total, the score and the arguments of the first call.
ReorderFlags ==
    /\ fn = "compute_risk_score"
    /\ pc = "done"
    /\ prev = <<>>
    /\ \E flags \in Reordered(args[1].FLAGS), local_flags \in Reordered(args[2]) :
        args' = <<[args[1] EXCEPT !.FLAGS = flags], local_flags>>
    /\ prev' = <<score, ret, args>>
    /\ pc' = "call"
    /\ ret' = None
    /\ score' = None
    /\ UNCHANGED fn
    /\ UNCHANGED ui

NextReorder == CallComputeRiskScore \/ ReorderFlags

SpecReorder == InitReorder /\ [][NextReorder]_vars

(***************************************************************************)
(* Claims about compute_risk_score                                         *)
(***************************************************************************)
ScoreReturned == fn = "compute_risk_score" /\ pc = "done"

\* C1: compute_risk_score returns an integer in [5, 95] for every SectionSet and
\* every list of local flags, also when the sum before the clamp is below 5
\* (negative after the -12 of the summary) or above 95.
C1_ScoreWithinBounds == ScoreReturned => ret \in 5..95

\* a sum that went negative has been clamped
C1_Witness == ScoreReturned /\ score < 0 /\ ret = 5

\* the SUMMARY of the narrative analysed before, once "mostly clean" was added
C7_SummaryBefore == SubSeq(args[1].SUMMARY, 1, Len(args[1].SUMMARY) - 1)

C7_Compared ==
    /\ ScoreReturned
    /\ prev # <<>>
    /\ Contains(Lower(Join(args[1].SUMMARY, " ")), "mostly clean")
    /\ ~Contains(Lower(Join(C7_SummaryBefore, " ")), "mostly clean")

\* C7 as claimed: the narrative whose SUMMARY contains "mostly clean" scores
\* strictly lower than the otherwise identical narrative without the phrase, and
\* the totals before the clamp differ by exactly 12.
C7_StrictlyLowerByTwelve ==
    C7_Compared => (ret < prev[2] /\ prev[1] - score = 12)

\* C7 as amended: against an otherwise identical narrative whose SUMMARY contains
\* neither "mostly clean" nor "mostly reasonable", the total before the clamp is
\* exactly 12 lower; the returned score is never higher, and it is strictly lower
\* exactly when the other total is above 5 and the lowered total is below 95.
C7_LowerByTwelveBeforeClamp ==
    (C7_Compared /\ ~Contains(Lower(Join(C7_SummaryBefore, " ")), "mostly reasonable")) =>
        /\ prev[1] - score = 12
        /\ ret <= prev[2]
        /\ (ret < prev[2]) <=> (prev[1] > 5 /\ score < 95)

\* both narratives scored, the second strictly lower although the first total was
\* above 95
C7_Witness ==
    /\ C7_Compared
    /\ ~Contains(Lower(Join(C7_SummaryBefore, " ")), "mostly reasonable")
    /\ prev[1] > 95
    /\ prev[1] - score = 12
    /\ ret < prev[2]

\* what the steps other than the first loop add to the score of the call
OutsideFlagLoop ==
    LocalFlagPoints(args[2])
        + DuplicateBonus(LoweredFlags(args[1], args[2]))
        + DeniedBonus(LoweredFlags(args[1], args[2]))
        + SavingsPoints(args[1])
        + SummaryAdjustment(args[1])

\* the rules of C16 in their order: the words, one of which the line must
\* contain, and the points
C16_Rules ==
    <<[words |-> {"critical"}, points |-> 22],
      [words |-> {"important", "significant"}, points |-> 14],
      [words |-> {"moderate"}, points |-> 8],
      [words |-> {"low", "worth asking"}, points |-> 4]>>

C16_Applies(k, line) == \E word \in C16_Rules[k].words : Contains(Lower(line), word)

\* the points of the first rule that applies to the line, 6 when none applies
C16_LinePoints(line) ==
    IF \A k \in 1..Len(C16_Rules) : ~C16_Applies(k, line) THEN 6
    ELSE C16_Rules[CHOOSE k \in 1..Len(C16_Rules) :
                       C16_Applies(k, line) /\ \A j \in 1..(k - 1) : ~C16_Applies(j, line)].points

RECURSIVE C16_SumOfLines(_)
C16_SumOfLines(lines) ==
    IF lines = <<>> THEN 0 ELSE C16_LinePoints(Head(lines)) + C16_SumOfLines(Tail(lines))

\* C16: for every line of FLAGS compute_risk_score adds exactly one of 22, 14, 8,
\* 4 or 6 points, those of the first rule that applies to the lower-cased line
\* (critical; important or significant; moderate; low or worth asking; none), and
\* the local flags get no points of this kind: the score before the clamp is the
\* sum of these points over the FLAGS lines plus what the other steps add.
C16_PointsPerFlagLine ==
    ScoreReturned => score = C16_SumOfLines(args[1].FLAGS) + OutsideFlagLoop

\* a FLAGS line to which two rules apply has been scored by the first of them, in
\* a call with local flags
C16_Witness ==
    /\ ScoreReturned
    /\ \E i \in 1..Len(args[1].FLAGS) :
           C16_Applies(3, args[1].FLAGS[i]) /\ C16_Applies(4, args[1].FLAGS[i])
    /\ Len(args[2]) = 3

\* what the steps other than the local-flag count add to the score of the call
OutsideLocalCount ==
    SumFlagPoints(args[1].FLAGS)
        + DuplicateBonus(LoweredFlags(args[1], args[2]))
        + DeniedBonus(LoweredFlags(args[1], args[2]))
        + SavingsPoints(args[1])
        + SummaryAdjustment(args[1])

\* FLAGS, INSURANCE and SUMMARY are empty
C17_NarrativeEmpty ==
    args[1].FLAGS = <<>> /\ args[1].INSURANCE = <<>> /\ args[1].SUMMARY = <<>>

\* C17: the count of local flags adds exactly min(8 * count, 16) (8 for one flag,
\* 16 for two or more), and when FLAGS, INSURANCE and SUMMARY are empty the
\* returned score is below 60, the high-risk threshold of render_risk_banner, for
\* every list of local flags.
C17_LocalFlagsCapped ==
    ScoreReturned =>
        /\ score - OutsideLocalCount
               = (CASE Len(args[2]) = 0 -> 0 [] Len(args[2]) = 1 -> 8 [] OTHER -> 16)
        /\ C17_NarrativeEmpty => ret < 60

\* all three local flags and an empty narrative: the count adds 16, the score stays
\* in the medium band
C17_Witness ==
    /\ ScoreReturned
    /\ C17_NarrativeEmpty
    /\ Len(args[2]) = 3
    /\ ret = 24

\* what the steps other than the savings signal add to the score of the call
OutsideSavingsSignal ==
    SumFlagPoints(args[1].FLAGS)
        + LocalFlagPoints(args[2])
        + DuplicateBonus(LoweredFlags(args[1], args[2]))
        + DeniedBonus(LoweredFlags(args[1], args[2]))
        + SummaryAdjustment(args[1])

\* the INSURANCE text of the call from its first "potential" on, any case; "" when
\* the word does not occur
C18_FromPotential ==
    LET text == Lower(Join(args[1].INSURANCE, " "))
    IN  IF Contains(text, "potential") THEN From(text, Find(text, "potential")) ELSE ""

\* where a dollar amount starts in the text: a dollar sign and, after optional
\* whitespace, a digit
C18_AmountStarts(text) ==
    {i \in 1..Len(text) : Ch(text, i) = "$" /\ IsDigit(Ch(text, SkipSpaces(text, i + 1)))}

\* the first dollar amount of the text, in cents
C18_FirstAmount(text) ==
    LET starts == C18_AmountStarts(text)
    IN  extract_money(From(text, CHOOSE i \in starts : \A j \in starts : i <= j))

\* C18: the savings signal is read from the INSURANCE text at and after the first
\* "potential" (any case): the first dollar amount from there on adds 15 when it
\* exceeds 1000, 8 when it exceeds 250, 3 when it exceeds 0 and 0 otherwise;
\* nothing is added when "potential" does not occur or no dollar amount follows
\* it, and amounts before "potential" do not count.
C18_SavingsSignal ==
    ScoreReturned =>
        score - OutsideSavingsSignal
            = (IF C18_AmountStarts(C18_FromPotential) = {} THEN 0
               ELSE IF C18_FirstAmount(C18_FromPotential) > 100000 THEN 15
               ELSE IF C18_FirstAmount(C18_FromPotential) > 25000 THEN 8
               ELSE IF C18_FirstAmount(C18_FromPotential) > 0 THEN 3
               ELSE 0)

\* what the steps other than the two keyword bonuses add to the score of the call
OutsideKeywordBonus ==
    SumFlagPoints(args[1].FLAGS)
        + LocalFlagPoints(args[2])
        + SavingsPoints(args[1])
        + SummaryAdjustment(args[1])

\* the flags of the call, FLAGS lines and local flags, that contain the word in
\* any case
C19_Mentioning(word) ==
    {i \in 1..(Len(args[1].FLAGS) + Len(args[2])) :
        Contains(Lower((args[1].FLAGS \o args[2])[i]), word)}

\* C19: 8 is added once when at least one flag among the FLAGS lines and the local
\* flags contains "duplicate" in any case, and 6 once when at least one contains
\* "balance bill" or "denied"; more flags with the keyword add nothing more.
C19_KeywordBonusOnce ==
    ScoreReturned =>
        score - OutsideKeywordBonus
            = (IF C19_Mentioning("duplicate") # {} THEN 8 ELSE 0)
              + (IF C19_Mentioning("balance bill") \cup C19_Mentioning("denied") # {}
                 THEN 6 ELSE 0)

\* three flags mention a duplicate, two FLAGS lines in capitals and a local flag,
\* and one line a denial: 14 points
C19_Witness ==
    /\ ScoreReturned
    /\ Cardinality(C19_Mentioning("duplicate")) = 3
    /\ Cardinality(C19_Mentioning("denied")) = 1
    /\ score - OutsideKeywordBonus = 14

\* the call on the reordered flags has returned
C20_Reordered == ScoreReturned /\ Len(prev) = 3

\* C20: permuting the lines of FLAGS, or the local flags, leaves the returned
\* score unchanged.
C20_OrderIndependent == C20_Reordered => ret = prev[2]

\* three different FLAGS lines and the three local flags, both in another order
\* than in the first call
C20_Witness ==
    /\ C20_Reordered
    /\ Cardinality({args[1].FLAGS[i] : i \in 1..Len(args[1].FLAGS)}) = 3
    /\ args[1].FLAGS # prev[3][1].FLAGS
    /\ Len(args[2]) = 3
    /\ args[2] # prev[3][2]

(***************************************************************************)
(* summarize_flag, concise_flag_detail, short_flag_explainer               *)
(***************************************************************************)
\* s.strip(chars) for a set of characters
StripChars(s, chars) ==
    IF \A i \in 1..Len(s) : Ch(s, i) \in chars THEN ""
    ELSE LET first == CHOOSE i \in 1..Len(s) :
                        Ch(s, i) \notin chars /\ \A j \in 1..(i - 1) : Ch(s, j) \in chars
             last  == CHOOSE i \in 1..Len(s) :
                        Ch(s, i) \notin chars /\ \A j \in (i + 1)..Len(s) : Ch(s, j) \in chars
         IN  SubSeq(s, first, last)

\* where a word that starts at i ends: the first index from i on that holds a space
SkipWord(s, i) ==
    CHOOSE e \in i..(Len(s) + 1) :
        /\ e = Len(s) + 1 \/ IsSpace(Ch(s, e))
        /\ \A j \in i..(e - 1) : ~IsSpace(Ch(s, j))

RECURSIVE Words(_)
\* s.split(): the runs of characters between whitespace
Words(s) ==
    LET b == SkipSpaces(s, 1)
    IN  IF b > Len(s) THEN <<>>
        ELSE LET e == SkipWord(s, b)
             IN  <<SubSeq(s, b, e - 1)>> \o Words(From(s, e))

\* re.sub(r"\s+", " ", s): every run of whitespace becomes one space
CollapseSpaces(s) ==
    LET words == Words(s)
    IN  IF s = "" THEN ""
        ELSE IF words = <<>> THEN " "
        ELSE (IF IsSpace(Ch(s, 1)) THEN " " ELSE "")
                 \o Join(words, " ")
                 \o (IF IsSpace(Ch(s, Len(s))) THEN " " ELSE "")

\* the look-behind class [.!?]
IsSentenceEnd(c) == c \in {".", "!", "?"}

\* where (?<=[.!?])\s+ can match: whitespace right after a sentence end
SentenceBreaks(s) == {i \in 2..Len(s) : IsSpace(Ch(s, i)) /\ IsSentenceEnd(Ch(s, i - 1))}

RECURSIVE SplitSentences(_)
\* re.split(r"(?<=[.!?])\s+", s)
SplitSentences(s) ==
    LET breaks == SentenceBreaks(s)
    IN  IF breaks = {} THEN <<s>>
        ELSE LET i == CHOOSE k \in breaks : \A j \in breaks : k <= j
             IN  <<SubSeq(s, 1, i - 1)>> \o SplitSentences(From(s, SkipSpaces(s, i)))

\* the class [A-Z\s]
IsUpperOrSpace(c) == c \in DOMAIN ToLower \/ IsSpace(c)

\* re.sub(r"^\[[A-Z\s]+\]\s*", "", text)
RemoveBracketTag(text) ==
    LET e == CHOOSE k \in 2..(Len(text) + 1) :
                /\ k = Len(text) + 1 \/ ~IsUpperOrSpace(Ch(text, k))
                /\ \A j \in 2..(k - 1) : IsUpperOrSpace(Ch(text, j))
    IN  IF Ch(text, 1) = "[" /\ e > 2 /\ Ch(text, e) = "]"
        THEN From(text, SkipSpaces(text, e + 1))
        ELSE text

\* where \d* ends when it starts at i
SkipDigits(s, i) ==
    CHOOSE e \in i..(Len(s) + 1) :
        /\ e = Len(s) + 1 \/ ~IsDigit(Ch(s, e))
        /\ \A j \in i..(e - 1) : IsDigit(Ch(s, j))

\* re.sub(r"^flag\s*\d+\s*[—|-]\s*", "", text, flags=re.IGNORECASE); the em dash
\* of the class is left out, no text of the model holds one
RemoveFlagNumber(text) ==
    LET a == SkipSpaces(text, 5)
        b == SkipDigits(text, a)
        c == SkipSpaces(text, b)
    IN  IF Lower(SubSeq(text, 1, Min(4, Len(text)))) = "flag" /\ b > a
            /\ Ch(text, c) \in {"|", "-"}
        THEN From(text, SkipSpaces(text, c + 1))
        ELSE text

\* the alternatives of the label pattern of summarize_flag, in its order
TitleLabels == <<"critical", "important", "significant", "moderate", "low", "worth asking">>

\* whether ^label\s*[|—:-] matches, case ignored (no text of the model holds an
\* em dash)
LabelMatches(text, label) ==
    /\ Lower(SubSeq(text, 1, Min(Len(label), Len(text)))) = label
    /\ Ch(text, SkipSpaces(text, Len(label) + 1)) \in {"|", ":", "-"}

\* re.sub(r"^(critical|...|worth asking)\s*[|—:-]\s*", "", text, flags=re.IGNORECASE)
RemoveSeverityLabel(text) ==
    LET hits == {k \in 1..Len(TitleLabels) : LabelMatches(text, TitleLabels[k])}
    IN  IF hits = {} THEN text
        ELSE LET k == CHOOSE h \in hits : \A j \in hits : h <= j
                 c == SkipSpaces(text, Len(TitleLabels[k]) + 1)
             IN  From(text, SkipSpaces(text, c + 1))

\* a plausible slip: the cut keeps one word more than the ceiling
CutToWords_OneMore(text, limit) ==
    LET words == Words(text)
    IN  IF Len(words) > limit
        THEN Join(SubSeq(words, 1, limit + 1), " ") \o "..."
        ELSE text

\* if len(text.split()) > limit: text = " ".join(text.split()[:limit]) + "..."
CutToWords(text, limit) ==
    LET words == Words(text)
    IN  IF Len(words) > limit
        THEN Join(SubSeq(words, 1, limit), " ") \o "..."
        ELSE text

\* the text after the first ":" when there is one, the whole text otherwise
AfterColon(text) ==
    IF Contains(text, ":") THEN Strip(From(text, Find(text, ":") + 1)) ELSE text

\* `title` of summarize_flag when the word count is taken
TitleCandidate(flag_text) ==
    LET bare  == Strip(RemoveBullet(flag_text))
        text  == Strip(CollapseSpaces(RemoveSeverityLabel(RemoveBracketTag(RemoveFlagNumber(bare)))))
        title == IF Contains(text, ":")
                 THEN Strip(SubSeq(text, 1, Find(text, ":") - 1))
                 ELSE Strip(SplitSentences(text)[1])
    IN  StripChars(RemoveBracketTag(title), {" ", "-"})

summarize_flag(flag_text) ==
    LET title == CutToWords(TitleCandidate(flag_text), 9)
    IN  IF title = "" THEN "Billing issue needs review" ELSE title

\* `first_sentence` of concise_flag_detail when the word count is taken
DetailCandidate(flag_text) ==
    LET text   == Strip(RemoveBullet(flag_text))
        detail == Strip(RemoveBracketTag(AfterColon(text)))
        first  == Strip(SplitSentences(detail)[1])
    IN  CollapseSpaces(IF first = "" THEN detail ELSE first)

concise_flag_detail(flag_text) == CutToWords(DetailCandidate(flag_text), 18)

\* `compact` of short_flag_explainer when the word count is taken
ExplainerCandidate(flag_text) ==
    LET text      == Strip(RemoveBullet(flag_text))
        detail    == AfterColon(text)
        sentences == SplitSentences(detail)
        firstTwo  == SubSeq(sentences, 1, Min(2, Len(sentences)))
        kept      == SelectSeq([i \in 1..Len(firstTwo) |-> Strip(firstTwo[i])],
                               LAMBDA sentence : sentence # "")
        compact   == Strip(CollapseSpaces(Join(kept, " ")))
    IN  Strip(RemoveBracketTag(compact))

short_flag_explainer(flag_text) == CutToWords(ExplainerCandidate(flag_text), 34)

MaxTextWords == 36   \* most words in the body of a drawn flag text

\* what a flag line starts with: bullets, flag numbers, bracket tags, labels
FlagTextPrefixes ==
    {"", "- ", "* [HIGH RISK] ", "Flag 2 - ", "Critical: ", "moderate | ",
     "- flag 12 | [A B] worth asking - "}

\* how the words of a body are set: <<the word that ends with a colon (0: none),
\* every how many words a sentence ends (0: never), the whitespace between words>>
FlagTextShapes ==
    {<<0, 0, " ">>, <<2, 0, " ">>, <<0, 12, " ">>, <<0, 20, "  ">>, <<3, 5, " \t">>,
     <<0, 1, " ">>, <<12, 30, " ">>}

\* a body of n words in the given shape
FlagTextBody(n, shape) ==
    Join([k \in 1..n |->
            "ab" \o (IF k = shape[1] THEN ":"
                     ELSE IF shape[2] > 0 /\ k % shape[2] = 0 THEN "."
                     ELSE "")],
         shape[3])

FlagTextExamples ==
    FlagExamples \cup {" ", "-", "--", ":", "[A]", "x: . y", "x: [A] y. z", "a.  b!   c? d", "...", "- : -"}

LongFlagTexts ==
    {prefix \o FlagTextBody(n, shape) :
        prefix \in FlagTextPrefixes, n \in 0..MaxTextWords, shape \in FlagTextShapes}
        \cup FlagTextExamples

FlagTextFunctions == {"summarize_flag", "concise_flag_detail", "short_flag_explainer"}

InitFlagText ==
    /\ fn \in FlagTextFunctions
    /\ pc = "call"
    /\ args \in {<<flag_text>> : flag_text \in LongFlagTexts}
    /\ ret = None
    /\ score = None
    /\ prev = <<>>
    /\ NoSession

CallSummarizeFlag ==
    /\ fn = "summarize_flag"
    /\ pc = "call"
    /\ ret' = summarize_flag(args[1])
    /\ pc' = "done"
    /\ UNCHANGED <<fn, args, score, prev>>
    /\ UNCHANGED ui

CallConciseFlagDetail ==
    /\ fn = "concise_flag_detail"
    /\ pc = "call"
    /\ ret' = concise_flag_detail(args[1])
    /\ pc' = "done"
    /\ UNCHANGED <<fn, args, score, prev>>
    /\ UNCHANGED ui

CallShortFlagExplainer ==
    /\ fn = "short_flag_explainer"
    /\ pc = "call"
    /\ ret' = short_flag_explainer(args[1])
    /\ pc' = "done"
    /\ UNCHANGED <<fn, args, score, prev>>
    /\ UNCHANGED ui

NextFlagText == CallSummarizeFlag \/ CallConciseFlagDetail \/ CallShortFlagExplainer

SpecFlagText == InitFlagText /\ [][NextFlagText]_vars

(***************************************************************************)
(* Claims about the flag text functions                                    *)
(***************************************************************************)
FlagTextReturned == fn \in FlagTextFunctions /\ pc = "done"

\* the word ceiling C11 gives the function that was called
C11_Ceiling ==
    CASE fn = "summarize_flag" -> 9
      [] fn = "concise_flag_detail" -> 18
      [] fn = "short_flag_explainer" -> 34

\* the text the called function had when it counted the words
C11_Candidate ==
    CASE fn = "summarize_flag" -> TitleCandidate(args[1])
      [] fn = "concise_flag_detail" -> DetailCandidate(args[1])
      [] fn = "short_flag_explainer" -> ExplainerCandidate(args[1])

\* C11: for every flag text summarize_flag returns at most 9 words,
\* concise_flag_detail at most 18 and short_flag_explainer at most 34; a longer
\* candidate is cut to the ceiling, its words kept in order and "..." attached to
\* the last kept word, and each of the three calls returns a text.
C11_WordCeilings ==
    FlagTextReturned =>
        LET words  == Words(ret)
            before == Words(C11_Candidate)
        IN  /\ ret # None
            /\ Len(words) <= C11_Ceiling
            /\ (Len(before) > C11_Ceiling) =>
                   /\ Len(words) = C11_Ceiling
                   /\ \A k \in 1..(C11_Ceiling - 1) : words[k] = before[k]
                   /\ words[C11_Ceiling] = before[C11_Ceiling] \o "..."

\* an explainer of more than 34 words has been cut to 34
C11_Witness ==
    /\ FlagTextReturned
    /\ fn = "short_flag_explainer"
    /\ Len(Words(ExplainerCandidate(args[1]))) > 34
    /\ Len(Words(ret)) = 34

(***************************************************************************)
(* find_money_in_lines and render_analysis                                 *)
(***************************************************************************)
\* the body of the for loop of find_money_in_lines, on the local `metrics`
MetricsStep(metrics, line) ==
    LET lower  == Lower(line)
        amount == extract_money(line)
    IN  IF Contains(lower, "total billed")
        THEN [metrics EXCEPT !.total_billed = amount]
        ELSE IF Contains(lower, "insurance paid")
        THEN [metrics EXCEPT !.insurance_paid = amount]
        ELSE IF Contains(lower, "patient owes")
        THEN [metrics EXCEPT !.patient_owes = amount]
        ELSE IF Contains(lower, "potential overcharge") \/ Contains(lower, "savings opportunity")
        THEN [metrics EXCEPT !.potential_savings = amount]
        ELSE metrics

RECURSIVE MetricsLoop(_, _)
MetricsLoop(metrics, lines) ==
    IF lines = <<>> THEN metrics
    ELSE MetricsLoop(MetricsStep(metrics, Head(lines)), Tail(lines))

\* a plausible slip: `metrics` is created once for all calls, so that the loop
\* starts from the amounts the call before has left
find_money_in_lines_SharedMetrics(lines) ==
    MetricsLoop(IF fn = "rerun" /\ prev # <<>>
                THEN [total_billed      |-> prev[Len(prev)].output.total_billed,
                      insurance_paid    |-> prev[Len(prev)].output.insurance_paid,
                      patient_owes      |-> prev[Len(prev)].output.patient_owes,
                      potential_savings |-> prev[Len(prev)].output.potential_savings]
                ELSE [total_billed |-> 0, insurance_paid |-> 0, patient_owes |-> 0,
                      potential_savings |-> 0],
                lines)

find_money_in_lines(lines) ==
    MetricsLoop([total_billed |-> 0, insurance_paid |-> 0, patient_owes |-> 0,
                 potential_savings |-> 0], lines)

\* a plausible slip: the value of the raw bill is preferred
Or_FallbackFirst(value, fallback) == IF fallback # 0 THEN fallback ELSE value

\* `value or fallback` on two floats
Or(value, fallback) == IF value # 0 THEN value ELSE fallback

\* a plausible slip: every local flag is added, also one the narrative repeats
CombinedFlags_NoFilter(flags, local_flags) ==
    flags \o [i \in 1..Len(local_flags) |-> "- " \o local_flags[i]]

\* combined_flags of render_analysis: FLAGS, then the local flags as bullet lines
CombinedFlags(flags, local_flags) ==
    LET bullets == [i \in 1..Len(local_flags) |-> "- " \o local_flags[i]]
        joined  == Join(flags, " ")
    IN  IF flags = <<>> THEN bullets
        ELSE flags \o SelectSeq(bullets, LAMBDA line : ~Contains(joined, From(line, 3)))

\* whether render_analysis shows a card for the flag line (it skips bare dashes)
FlagShown(flag) == Strip(RemoveBullet(flag)) \notin {"-", "--", ""}

\* the card render_analysis shows for one flag line
FlagCard(flag) ==
    LET clean == RemoveBullet(flag)
    IN  [severity  |-> flag_severity(clean),
         title     |-> summarize_flag(clean),
         detail    |-> concise_flag_detail(clean),
         explainer |-> short_flag_explainer(clean)]

\* the cards of the Red Flags section, in the order shown
FlagCards(combined_flags) ==
    LET shown == SelectSeq(combined_flags, FlagShown)
    IN  [i \in 1..Len(shown) |-> FlagCard(shown[i])]

\* What render_analysis hands to the render_* functions, from its locals: the
\* risk score, the four amounts, the itemized rows and the flag cards.
AnalysisShown(sections, metrics, fallback_totals, local) ==
    [risk_score        |-> compute_risk_score(sections, local[2]),
     total_billed      |-> Or(metrics.total_billed, fallback_totals.total_billed),
     insurance_paid    |-> Or(metrics.insurance_paid, fallback_totals.insurance_paid),
     patient_owes      |-> Or(metrics.patient_owes, fallback_totals.patient_responsibility),
     potential_savings |-> Or(metrics.potential_savings, local[1]),
     itemized_rows     |-> parse_itemized_lines(sections.ITEMIZED),
     flags             |-> FlagCards(CombinedFlags(sections.FLAGS, local[2]))]

\* render_analysis once `sections` is there: metrics, fallback_totals and the pair
\* (local_risk, local_flags)
AnalysisOfSections(sections, raw_bill) ==
    AnalysisShown(sections, find_money_in_lines(sections.INSURANCE),
                  parse_bill_input(raw_bill), estimate_local_risk(raw_bill))

render_analysis(raw_output, raw_bill, insurance_context) ==
    AnalysisOfSections(parse_structured_sections(raw_output), raw_bill)

MaxInsuranceLines == 2   \* most lines in the INSURANCE section of a drawn narrative

AnalysisInsuranceLines ==
    {"- Total billed: $4,000", "- Insurance paid: $0", "- Patient owes: $1,800.50",
     "- Potential overcharge: $1,160", "- Savings opportunity: none",
     "- total billed: n/a", "- Note: see the EOB"}

\* what a drawn narrative holds before its INSURANCE section
AnalysisNarrativeHeads ==
    {"",
     "SUMMARY\n- Mostly clean.\nFLAGS\n- Critical: Duplicate lab panel\n--\n- Important: "
        \o FacilityFeeFlag \o "\nITEMIZED\n- Lab panel | $650 | Billed twice\n"}

AnalysisNarratives ==
    {head \o "INSURANCE:\n" \o Join(q, "\n") :
        head \in AnalysisNarrativeHeads,
        q \in SeqsUpTo(AnalysisInsuranceLines, MaxInsuranceLines)}

AnalysisBills ==
    {SAMPLE_BILL, "", "Patient owes $95\nINSURANCE PAID: $10\nFacility fee: $2,400"}

InitAnalysis ==
    /\ fn = "render_analysis"
    /\ pc = "call"
    /\ args \in {<<raw_output, raw_bill, "">> :
                    raw_output \in AnalysisNarratives, raw_bill \in AnalysisBills}
    /\ ret = None
    /\ score = None
    /\ prev = <<>>
    /\ NoSession

CallRenderAnalysis ==
    /\ fn = "render_analysis"
    /\ pc = "call"
    /\ ret' = render_analysis(args[1], args[2], args[3])
    /\ pc' = "done"
    /\ UNCHANGED <<fn, args, score, prev>>
    /\ UNCHANGED ui

NextAnalysis == CallRenderAnalysis

SpecAnalysis == InitAnalysis /\ [][NextAnalysis]_vars

(***************************************************************************)
(* Claims about render_analysis                                            *)
(***************************************************************************)
AnalysisRendered == fn = "render_analysis" /\ pc = "done"

\* C12: in render_analysis each of total billed, insurance paid, patient owes and
\* potential savings is the value parsed from the INSURANCE section when that
\* value is not zero, and otherwise the value parsed from the raw bill (total
\* billed, insurance paid, patient responsibility) or, for the savings, the
\* estimate of estimate_local_risk.
C12_TwoTierLookup ==
    AnalysisRendered =>
        LET parsed == find_money_in_lines(parse_structured_sections(args[1]).INSURANCE)
            bill   == parse_bill_input(args[2])
            local  == estimate_local_risk(args[2])
        IN  /\ ret.total_billed =
                   (IF parsed.total_billed # 0 THEN parsed.total_billed ELSE bill.total_billed)
            /\ ret.insurance_paid =
                   (IF parsed.insurance_paid # 0 THEN parsed.insurance_paid
                    ELSE bill.insurance_paid)
            /\ ret.patient_owes =
                   (IF parsed.patient_owes # 0 THEN parsed.patient_owes
                    ELSE bill.patient_responsibility)
            /\ ret.potential_savings =
                   (IF parsed.potential_savings # 0 THEN parsed.potential_savings ELSE local[1])

\* both tiers at once: the INSURANCE section gives the patient's share, the raw
\* bill a different one, and it gives an insurance payment of zero where the raw
\* bill has one
C12_Witness ==
    /\ AnalysisRendered
    /\ LET parsed == find_money_in_lines(parse_structured_sections(args[1]).INSURANCE)
           bill   == parse_bill_input(args[2])
       IN  /\ parsed.patient_owes # 0
           /\ bill.patient_responsibility # 0
           /\ parsed.patient_owes # bill.patient_responsibility
           /\ ret.patient_owes = parsed.patient_owes
           /\ parsed.insurance_paid = 0
           /\ bill.insurance_paid # 0
           /\ ret.insurance_paid = bill.insurance_paid

\* the local flags C30 keeps: all of them when FLAGS is empty, otherwise those
\* whose text does not occur in the narrative flags joined by spaces
C30_LocalFlagsKept(flags, local_flags) ==
    SelectSeq(local_flags, LAMBDA f : flags = <<>> \/ ~Contains(Join(flags, " "), f))

\* the list of C30: the FLAGS lines, then the kept local flags as bullet lines
C30_Listed(flags, local_flags) ==
    flags \o [i \in 1..Len(C30_LocalFlagsKept(flags, local_flags)) |->
                 "- " \o C30_LocalFlagsKept(flags, local_flags)[i]]

C30_Cards(lines) == [i \in 1..Len(lines) |-> FlagCard(lines[i])]

\* a line that is only dashes once its bullet is removed: "-", "--" or nothing
C30_IsPlaceholder(line) == Strip(RemoveBullet(line)) \in {"-", "--", ""}

\* C30 as claimed: the flags render_analysis displays are the FLAGS lines in their
\* order followed by the local flags in check order, a local flag being left out
\* only when FLAGS is not empty and holds its text.
C30_FlagsThenLocalFlags ==
    AnalysisRendered =>
        ret.flags = C30_Cards(C30_Listed(parse_structured_sections(args[1]).FLAGS,
                                         estimate_local_risk(args[2])[2]))

\* C30 as amended: the same list without the lines that are only dashes.
C30_FlagsWithoutPlaceholders ==
    AnalysisRendered =>
        ret.flags = C30_Cards(SelectSeq(C30_Listed(parse_structured_sections(args[1]).FLAGS,
                                                   estimate_local_risk(args[2])[2]),
                                        LAMBDA line : ~C30_IsPlaceholder(line)))

\* FLAGS holds a line of dashes and the text of one of three local flags: the two
\* other local flags are shown after the two narrative flags
C30_Witness ==
    /\ AnalysisRendered
    /\ Len(parse_structured_sections(args[1]).FLAGS) = 3
    /\ Len(estimate_local_risk(args[2])[2]) = 3
    /\ Len(ret.flags) = 4
    /\ ret.flags[1].severity = "critical"
    /\ ret.flags[2].severity = "important"
    /\ ret.flags[3].detail = DuplicateLabFlag
    /\ ret.flags[4].detail = BillSizeFlag

(***************************************************************************)
(* main: the runs of the script in one browser session                     *)
(***************************************************************************)
\* extract_text_from_upload for a .txt upload, a file being the text it holds:
\* .ok is FALSE when the call raises (the text is blank)
extract_text_from_upload(file) ==
    IF Strip(file) = "" THEN [ok |-> FALSE, text |-> ""] ELSE [ok |-> TRUE, text |-> file]

\* one round of the loop over the two uploaders, on st.session_state
ProcessUpload(state, upload, session_key) ==
    IF upload = <<>> \/ ~extract_text_from_upload(upload[1]).ok THEN state
    ELSE [[state EXCEPT ![session_key] = extract_text_from_upload(upload[1]).text]
             EXCEPT !.analysis_ready = FALSE, !.chat_history = <<>>]

\* st.success or st.error of that round
UploadNotice(upload, label) ==
    IF upload = <<>> THEN <<>>
    ELSE IF extract_text_from_upload(upload[1]).ok THEN <<label \o ": Loaded text file successfully.">>
    ELSE <<"Unable to read text file: The text file is empty.">>

\* what render_fallback_analysis hands to the render_* functions and shows as flags
render_fallback_analysis(raw_bill) ==
    LET local           == estimate_local_risk(raw_bill)
        fallback_totals == parse_bill_input(raw_bill)
    IN  [estimated_savings      |-> local[1],
         total_billed           |-> fallback_totals.total_billed,
         insurance_paid         |-> fallback_totals.insurance_paid,
         patient_responsibility |-> fallback_totals.patient_responsibility,
         flags                  |-> local[2]]

\* api_messages of render_followup_chat for the history that holds the new question
ChatRequest(history, bill_text, insurance_text, analysis_text) ==
    <<[role |-> "user",
       content |-> "The patient's medical bill:\n" \o bill_text
                   \o "\n\nThe patient's insurance explanation of benefits:\n"
                   \o (IF insurance_text = "" THEN "None provided" ELSE insurance_text)
                   \o "\n\nPrevious BillGuard AI analysis:\n" \o analysis_text],
      [role |-> "assistant",
       content |-> "I've analyzed your bill and I'm ready to help with any questions."]>>
        \o history

\* render_followup_chat: .history is st.session_state.chat_history when it returns,
\* .view what it has put on the page.  `question` is <<>> or the submitted text,
\* `reply` what stream_chat_response does when it is asked.
render_followup_chat(state, question, reply) ==
    IF question = <<>>
    THEN [history |-> state.chat_history,
          view    |-> [messages |-> state.chat_history, request |-> <<>>, failed |-> FALSE]]
    ELSE LET asked    == Append(state.chat_history, [role |-> "user", content |-> question[1]])
             request  == ChatRequest(asked, state.last_bill, state.last_insurance,
                                     state.last_analysis)
             answered == Append(asked, [role |-> "assistant", content |-> reply.text])
         IN  IF reply.raises
             THEN [history |-> asked,
                   view    |-> [messages |-> asked, request |-> request, failed |-> TRUE]]
             ELSE [history |-> answered,
                   view    |-> [messages |-> answered, request |-> request, failed |-> FALSE]]

\* the end of main: the follow-up chat, when an analysis is ready and a key is there
WithChat(state, page, api_key, question, reply) ==
    IF state.analysis_ready /\ Strip(api_key) # ""
    THEN LET chat == render_followup_chat(state, question, reply)
         IN  [session |-> [state EXCEPT !.chat_history = chat.history],
              screen  |-> [page EXCEPT !.chat = <<chat.view>>]]
    ELSE [session |-> state, screen |-> page]

\* a plausible slip: the analysis of the last run is not withdrawn before the call
StartAnalysis_KeepReady(state) == [state EXCEPT !.chat_history = <<>>]

\* a plausible slip: the chat about the last analysis is kept
StartAnalysis_KeepChat(state) == [state EXCEPT !.analysis_ready = FALSE]

\* analysis_ready = False and chat_history = [] right before the generation call
StartAnalysis(state) == [state EXCEPT !.analysis_ready = FALSE, !.chat_history = <<>>]

\* a plausible slip: the text streamed before the exception is taken as full_text
StreamCompleted_PartialText(generation) == generation.text # ""

\* st.write_stream has returned, and full_text is not empty
StreamCompleted(generation) == ~generation.raises /\ generation.text # ""

\* a plausible slip: the insurance text of the analysis is not kept
StoreAnalysis_NoInsurance(state, full_text, bill_text, insurance_text) ==
    [state EXCEPT !.last_analysis = full_text, !.last_bill = bill_text,
                  !.analysis_ready = TRUE]

\* the four assignments after a completed generation
StoreAnalysis(state, full_text, bill_text, insurance_text) ==
    [state EXCEPT !.last_analysis = full_text, !.last_bill = bill_text,
                  !.last_insurance = insurance_text, !.analysis_ready = TRUE]

\* the calls of stream_claude and render_analysis in a run that makes neither
NoCalls == [stream_claude |-> <<>>, render_analysis |-> <<>>]

\* the run after the uploads, when Analyze was not clicked or has passed both
\* checks: `called` tells whether stream_claude is called, `page` holds the upload
\* notices.  The analysis is rendered by the Analyze branch from full_text and the
\* texts of this run, or else by the elif branch from what the session keeps.
AppPage(loaded, page, api_key, called, generation, question, reply) ==
    LET failed   == called /\ ~StreamCompleted(generation)
        after    == IF ~called THEN loaded
                    ELSE IF failed THEN StartAnalysis(loaded)
                    ELSE StoreAnalysis(StartAnalysis(loaded), generation.text,
                                       loaded.bill_text, loaded.insurance_text)
        renders  == IF called THEN ~failed
                    ELSE loaded.analysis_ready /\ loaded.last_analysis # ""
        rendered == IF called
                    THEN <<generation.text, loaded.bill_text, loaded.insurance_text>>
                    ELSE <<loaded.last_analysis, loaded.last_bill, loaded.last_insurance>>
    IN  WithChat(after,
                 [page EXCEPT
                     !.stream   = IF called THEN <<generation.text>> ELSE <<>>,
                     !.notices  = IF failed THEN Append(@, "Claude analysis did not complete.")
                                  ELSE @,
                     !.fallback = IF failed THEN <<render_fallback_analysis(loaded.bill_text)>>
                                  ELSE <<>>,
                     !.analysis = IF renders
                                  THEN <<render_analysis(rendered[1], rendered[2], rendered[3])>>
                                  ELSE <<>>],
                 api_key, question, reply)
        @@ [calls |-> [stream_claude   |-> IF called
                                           THEN <<<<api_key, loaded.bill_text,
                                                    loaded.insurance_text>>>>
                                           ELSE <<>>,
                       render_analysis |-> IF renders THEN <<rendered>> ELSE <<>>]]

\* One run of main from top to bottom: st.session_state and the page when it ends,
\* and the arguments of the calls of stream_claude and render_analysis it has made.
\* `state` is st.session_state and `inputs` the widget values when the run starts;
\* `analyze` tells whether the Analyze button was clicked, `generation` what
\* stream_claude does if it is called (.raises, and .text streamed until then),
\* `question` and `reply` are those of render_followup_chat.
main(state, inputs, analyze, generation, question, reply) ==
    IF state.page = "landing"
    THEN [session |-> state, screen |-> [BlankScreen EXCEPT !.page = "landing"],
          calls |-> NoCalls]
    ELSE
    LET loaded == ProcessUpload(ProcessUpload(state, inputs.provider_upload, "bill_text"),
                                inputs.insurance_upload, "insurance_text")
        page   == [BlankScreen EXCEPT
                      !.page = "app",
                      !.notices = UploadNotice(inputs.provider_upload, "Provider bill")
                                  \o UploadNotice(inputs.insurance_upload, "Insurance EOB")]
    IN  IF analyze /\ Strip(loaded.bill_text) = ""
        THEN [session |-> loaded,
              screen  |-> [page EXCEPT !.notices =
                              Append(@, "Paste bill text or upload a file before running the analysis.")],
              calls   |-> NoCalls]
        ELSE IF analyze /\ Strip(inputs.api_key) = ""
        THEN [session |-> loaded,
              screen  |-> [page EXCEPT !.notices =
                              Append(@, "Enter your Anthropic API key in the sidebar to run Claude.")],
              calls   |-> NoCalls]
        ELSE AppPage(loaded, page, inputs.api_key, analyze, generation, question, reply)

MaxChatMessages == 2   \* most messages in chat_history before the user stops asking

BillFile == "Lab panel x2\nTotal billed: $900"

\* the files the user uploads as provider bill: a blank one and a bill
BillFiles == {" ", BillFile}

InsuranceFiles == {"Allowed: $400"}

ApiKeys == {"", "sk-ant-1"}

FlaggedNarrative ==
    "INSURANCE\n- Potential overcharge: $650\nFLAGS\n- Critical: Billed twice"

CleanNarrative == "SUMMARY\n- Mostly clean.\nITEMIZED\n- Visit | $280 | OK"

\* what stream_claude can do: fail at once, fail after some text, end without
\* text, or deliver a narrative
Generations ==
    {[raises |-> TRUE, text |-> ""],
     [raises |-> TRUE, text |-> "FLAGS\n- Critical"],
     [raises |-> FALSE, text |-> ""],
     [raises |-> FALSE, text |-> FlaggedNarrative],
     [raises |-> FALSE, text |-> CleanNarrative]}

NoGeneration == [raises |-> FALSE, text |-> ""]

Questions == {"Why twice?"}

\* what stream_chat_response can do: fail, or deliver a reply
Replies == {[raises |-> TRUE, text |-> ""], [raises |-> FALSE, text |-> "Ask the lab."]}

NoReply == [raises |-> FALSE, text |-> ""]

\* the first run of the script has ended: the keys are bootstrapped, the landing
\* page is shown
InitSession ==
    /\ fn = "main"
    /\ pc = "done"
    /\ args = <<"open", NoGeneration, "">>
    /\ ret = [session |-> SessionDefaults,
              screen  |-> [BlankScreen EXCEPT !.page = "landing"],
              calls   |-> NoCalls]
    /\ score = None
    /\ prev = [generated |-> <<>>, before |-> SessionDefaults]
    /\ session = SessionDefaults
    /\ widgets = WidgetDefaults
    /\ screen = [BlankScreen EXCEPT !.page = "landing"]

\* An event of the browser, and the run of the script it starts.  The event leaves
\* its widget value (or, for the two page buttons, the page) and args, <<the event,
\* what the service does when the run calls it, the question>>; pc = "run" until
\* RunMain has run the script, and no other event is taken in between.
Event(kind, outcome, question) ==
    /\ fn = "main"
    /\ pc = "done"
    /\ pc' = "run"
    /\ args' = <<kind, outcome, question>>
    /\ UNCHANGED <<fn, ret, score, prev, screen>>

\* either button of the landing page: page = "app", then st.rerun()
ClickGetStarted ==
    /\ screen.page = "landing"
    /\ Event("start", NoGeneration, "")
    /\ session' = [session EXCEPT !.page = "app"]
    /\ UNCHANGED widgets

\* "Back to Home": page = "landing", then st.rerun(); the widgets of the app page
\* are not rendered on the landing page and lose their values
ClickBackToHome ==
    /\ screen.page = "app"
    /\ Event("back", NoGeneration, "")
    /\ session' = [session EXCEPT !.page = "landing"]
    /\ widgets' = WidgetDefaults

TypeApiKey ==
    /\ screen.page = "app"
    /\ Event("key", NoGeneration, "")
    /\ \E api_key \in ApiKeys :
        /\ api_key # widgets.api_key
        /\ widgets' = [widgets EXCEPT !.api_key = api_key]
    /\ UNCHANGED session

\* a file is put into the provider uploader, or the file in it is removed
ChooseBillFile ==
    /\ screen.page = "app"
    /\ Event("bill file", NoGeneration, "")
    /\ \E upload \in {<<>>} \cup {<<file>> : file \in BillFiles} :
        /\ upload # widgets.provider_upload
        /\ widgets' = [widgets EXCEPT !.provider_upload = upload]
    /\ UNCHANGED session

ChooseInsuranceFile ==
    /\ screen.page = "app"
    /\ Event("insurance file", NoGeneration, "")
    /\ \E upload \in {<<>>} \cup {<<file>> : file \in InsuranceFiles} :
        /\ upload # widgets.insurance_upload
        /\ widgets' = [widgets EXCEPT !.insurance_upload = upload]
    /\ UNCHANGED session

ClickAnalyze ==
    /\ screen.page = "app"
    /\ \E generation \in Generations : Event("analyze", generation, "")
    /\ UNCHANGED <<session, widgets>>

\* a question is submitted in the chat input, which is there when the last run
\* has rendered the chat
SubmitQuestion ==
    /\ screen.chat # <<>>
    /\ Len(session.chat_history) < MaxChatMessages
    /\ \E question \in Questions, reply \in Replies : Event("question", reply, question)
    /\ UNCHANGED <<session, widgets>>

\* the run of the script that the event has started; ret is what the run leaves:
\* the session state, the page and its calls.  prev keeps the last call of
\* stream_claude in the session that has returned a narrative (its bill and
\* insurance texts and the full text), and st.session_state as the run found it
RunMain ==
    /\ fn = "main"
    /\ pc = "run"
    /\ ret' = main(session, widgets, args[1] = "analyze",
                   IF args[1] = "analyze" THEN args[2] ELSE NoGeneration,
                   IF args[1] = "question" THEN <<args[3]>> ELSE <<>>,
                   IF args[1] = "question" THEN args[2] ELSE NoReply)
    /\ session' = ret'.session
    /\ screen' = ret'.screen
    /\ prev' = [generated |-> IF /\ ret'.calls.stream_claude # <<>>
                                 /\ ~args[2].raises
                                 /\ args[2].text # ""
                              THEN <<[bill_text      |-> ret'.calls.stream_claude[1][2],
                                      insurance_text |-> ret'.calls.stream_claude[1][3],
                                      full_text      |-> args[2].text]>>
                              ELSE prev.generated,
                before    |-> session]
    /\ pc' = "done"
    /\ UNCHANGED <<fn, args, score, widgets>>

NextSession ==
    \/ ClickGetStarted
    \/ ClickBackToHome
    \/ TypeApiKey
    \/ ChooseBillFile
    \/ ChooseInsuranceFile
    \/ ClickAnalyze
    \/ SubmitQuestion
    \/ RunMain

SpecSession == InitSession /\ [][NextSession]_vars

(***************************************************************************)
(* Segmentation and scoring run again and again, as main does in every run  *)
(* that shows an analysis                                                  *)
(***************************************************************************)
MaxCalls == 3   \* most invocations of render_analysis in one behaviour

\* (raw_output, raw_bill, insurance_context) of an invocation
RerunInputs ==
    {<<raw_output, raw_bill, insurance_context>> :
        raw_output \in {FlaggedNarrative, CleanNarrative},
        raw_bill \in {BillFile, ""},
        insurance_context \in {""}}

\* st.session_state at the time of an invocation: as bootstrapped, or with an
\* analysis and a question in it
RerunSessions ==
    {SessionDefaults,
     [SessionDefaults EXCEPT !.page = "app", !.bill_text = BillFile,
                             !.last_analysis = FlaggedNarrative, !.last_bill = BillFile,
                             !.analysis_ready = TRUE,
                             !.chat_history = <<[role |-> "user", content |-> "Why twice?"]>>]}

InitRerun ==
    /\ fn = "rerun"
    /\ pc = "done"
    /\ args = <<>>
    /\ ret = None
    /\ score = None
    /\ prev = <<>>
    /\ session = SessionDefaults
    /\ widgets = WidgetDefaults
    /\ screen = BlankScreen

\* one more invocation, on any input and in any session state; prev keeps the
\* input and the output of every invocation so far
CallRenderAnalysisAgain ==
    /\ fn = "rerun"
    /\ Len(prev) < MaxCalls
    /\ \E input \in RerunInputs :
        /\ args' = input
        /\ ret' = render_analysis(input[1], input[2], input[3])
        /\ prev' = Append(prev, [input |-> input, output |-> ret'])
        /\ \E state \in RerunSessions : session' = state
    /\ UNCHANGED <<fn, pc, score, widgets, screen>>

NextRerun == CallRenderAnalysisAgain

SpecRerun == InitRerun /\ [][NextRerun]_vars

FlagLines == FlagTexts \cup {"- " \o flag_text : flag_text \in FlagTexts}

InitFlagLine ==
    /\ fn = "flag"
    /\ pc = "call"
    /\ args \in {<<flag>> : flag \in FlagLines}
    /\ ret = None
    /\ score = None
    /\ prev = <<>>
    /\ NoSession

\* the round of compute_risk_score's loop for the line; score keeps its points
ScoreFlagLine ==
    /\ fn = "flag"
    /\ pc = "call"
    /\ score' = FlagPoints(args[1])
    /\ pc' = "scored"
    /\ UNCHANGED <<fn, args, ret, prev>>
    /\ UNCHANGED ui

\* the round of the Red Flags loop for the line; ret keeps the severity shown
ShowFlagLine ==
    /\ fn = "flag"
    /\ pc = "scored"
    /\ FlagShown(args[1])
    /\ ret' = FlagCard(args[1]).severity
    /\ pc' = "done"
    /\ UNCHANGED <<fn, args, score, prev>>
    /\ UNCHANGED ui

NextFlagLine == ScoreFlagLine \/ ShowFlagLine

SpecFlagLine == InitFlagLine /\ [][NextFlagLine]_vars

\* the points C24 gives for a severity label
C24_Points ==
    [label \in {"critical", "important", "significant", "moderate", "low", "worth asking",
                "review"} |->
        IF label = "critical" THEN 22
        ELSE IF label \in {"important", "significant"} THEN 14
        ELSE IF label = "moderate" THEN 8
        ELSE IF label \in {"low", "worth asking"} THEN 4
        ELSE 6]

\* C24: for every FLAGS line, the points compute_risk_score adds for the line are
\* those of the label flag_severity gives the same line (critical 22, important
\* or significant 14, moderate 8, low or worth asking 4, review 6), and that label
\* is the severity shown on the card of the line.
C24_PointsFollowSeverity ==
    (fn = "flag" /\ pc = "done") =>
        /\ score = C24_Points[flag_severity(args[1])]
        /\ ret = flag_severity(args[1])

\* a bullet line with keywords of two rules, the later of the list standing first
\* in the text, and one in which "low" occurs only inside another word
C24_Witness ==
    /\ fn = "flag"
    /\ pc = "done"
    /\ Ch(args[1], 1) = "-"
    /\ \/ /\ ret = "important"
          /\ Contains(Lower(args[1]), "low")
          /\ Find(Lower(args[1]), "low") < Find(Lower(args[1]), "important")
          /\ score = 14
       \/ /\ args[1] = "- allowed charge"
          /\ ret = "low"
          /\ score = 4

(***************************************************************************)
(* render_analysis, statement by statement, on the list objects it holds.   *)
(* The heap maps the name of a list object (a key of `sections`, or the     *)
(* local variable that first held the list) to the items of the list.       *)
(***************************************************************************)
\* a new list object
NewList(heap, ref, items) == (ref :> items) @@ heap

\* list.extend, on the object itself
Extend(heap, ref, items) == [heap EXCEPT ![ref] = @ \o items]

\* a plausible slip: combined_flags = sections["FLAGS"], the list itself
SliceCopy_SameObject(heap, source, ref) == [heap |-> heap, ref |-> source]

\* source[:], bound to the variable `ref`: a new list with the same items
SliceCopy(heap, source, ref) == [heap |-> NewList(heap, ref, heap[source]), ref |-> ref]

\* compute_risk_score on the heap: all_flags is the new list that + builds
ScoreLists(heap, local_flags) == NewList(heap, "all_flags", heap["FLAGS"] \o local_flags)

\* parse_itemized_lines on the heap: `parsed` is a new list, and it is appended to
ItemizedLists(heap) == NewList(heap, "parsed", parse_itemized_lines(heap["ITEMIZED"]))

\* the flag combination, once combined_flags is bound to `copy.ref`: an empty list
\* is replaced by a new one, any other is extended
CombineInto(copy, local_flags) ==
    LET bullets == [i \in 1..Len(local_flags) |-> "- " \o local_flags[i]]
        joined  == Join(copy.heap[copy.ref], " ")
    IN  IF copy.heap[copy.ref] = <<>>
        THEN [heap |-> NewList(copy.heap, "bullets", bullets), combined_flags |-> "bullets"]
        ELSE [heap |-> Extend(copy.heap, copy.ref,
                              SelectSeq(bullets, LAMBDA line : ~Contains(joined, From(line, 3)))),
              combined_flags |-> copy.ref]

\* lines 1429-1433 of render_analysis
CombineLists(heap, local_flags) ==
    CombineInto(SliceCopy(heap, "FLAGS", "combined_flags"), local_flags)

FrameFlagLines == {"- Critical: Billed twice", "- " \o DuplicateLabFlag}

FrameNarratives ==
    {"FLAGS\n" \o Join(q, "\n") : q \in SeqsUpTo(FrameFlagLines, MaxFlagLines)}
        \cup {FlaggedNarrative, CleanNarrative}

FrameBills == {"Lab panel x2\nFacility fee: $1,800\nTotal billed: $4,000", ""}

InitFrame ==
    /\ fn = "sections"
    /\ pc = "call"
    /\ args \in {<<raw_output, raw_bill>> :
                    raw_output \in FrameNarratives, raw_bill \in FrameBills}
    /\ ret = None
    /\ score = None
    /\ prev = <<>>
    /\ NoSession

\* sections = parse_structured_sections(raw_output): the eight lists are on the
\* heap under their keys; prev keeps the SectionSet as it was returned
ParseIntoSections ==
    /\ fn = "sections"
    /\ pc = "call"
    /\ ret' = [heap |-> parse_structured_sections(args[1]), combined_flags |-> None]
    /\ prev' = ret'.heap
    /\ pc' = "parsed"
    /\ UNCHANGED <<fn, args, score>>
    /\ UNCHANGED ui

\* find_money_in_lines(sections["INSURANCE"]) reads the list and writes to its own
\* dict; score keeps the metrics
ReadMetrics ==
    /\ fn = "sections"
    /\ pc = "parsed"
    /\ score' = find_money_in_lines(ret.heap["INSURANCE"])
    /\ pc' = "metrics"
    /\ UNCHANGED <<fn, args, ret, prev>>
    /\ UNCHANGED ui

ScoreSectionSet ==
    /\ fn = "sections"
    /\ pc = "metrics"
    /\ ret' = [ret EXCEPT !.heap = ScoreLists(@, estimate_local_risk(args[2])[2])]
    /\ pc' = "scored"
    /\ UNCHANGED <<fn, args, score, prev>>
    /\ UNCHANGED ui

ParseItemizedSection ==
    /\ fn = "sections"
    /\ pc = "scored"
    /\ ret' = [ret EXCEPT !.heap = ItemizedLists(@)]
    /\ pc' = "itemized"
    /\ UNCHANGED <<fn, args, score, prev>>
    /\ UNCHANGED ui

CombineFlagLists ==
    /\ fn = "sections"
    /\ pc = "itemized"
    /\ ret' = CombineLists(ret.heap, estimate_local_risk(args[2])[2])
    /\ pc' = "combined"
    /\ UNCHANGED <<fn, args, score, prev>>
    /\ UNCHANGED ui

NextFrame ==
    \/ ParseIntoSections
    \/ ReadMetrics
    \/ ScoreSectionSet
    \/ ParseItemizedSection
    \/ CombineFlagLists

SpecFrame == InitFrame /\ [][NextFrame]_vars

\* C23: the SectionSet is not modified after parse_structured_sections has
\* returned it: after find_money_in_lines, compute_risk_score,
\* parse_itemized_lines and the flag combination of render_analysis every
\* section's list holds the lines it held when it was returned.
C23_SectionSetUnchanged ==
    (fn = "sections" /\ pc # "call") =>
        \A name \in SectionNames : ret.heap[name] = prev[name]

\* local flags were added to the copy of a FLAGS list that is not empty, and the
\* combined list is the one render_analysis shows
C23_Witness ==
    /\ fn = "sections"
    /\ pc = "combined"
    /\ prev["FLAGS"] # <<>>
    /\ ret.combined_flags = "combined_flags"
    /\ Len(ret.heap[ret.combined_flags]) > Len(prev["FLAGS"])
    /\ ret.heap[ret.combined_flags]
           = CombinedFlags(prev["FLAGS"], estimate_local_risk(args[2])[2])
    /\ ret.heap["all_flags"] # prev["FLAGS"]
    /\ ret.heap["parsed"] = <<>>

(***************************************************************************)
(* Claims about main                                                       *)
(***************************************************************************)
\* the run that has ended was started by a click on Analyze and has called
\* stream_claude: the bill text and the key were not blank
GenerationCalled ==
    /\ fn = "main"
    /\ pc = "done"
    /\ args[1] = "analyze"
    /\ Strip(session.bill_text) # ""
    /\ Strip(widgets.api_key) # ""

\* the generation call of that run has raised, or has returned an empty narrative
GenerationFailed == GenerationCalled /\ (args[2].raises \/ args[2].text = "")

\* C13: whenever the generation call raises or returns an empty narrative after
\* Analyze is clicked, the run renders the estimate and the flags of
\* estimate_local_risk and the totals of parse_bill_input on the raw bill, renders
\* no analysis of a narrative (no segmentation, no risk score), and ends with
\* analysis_ready False.
C13_LocalFallbackOnly ==
    GenerationFailed =>
        /\ Len(screen.fallback) = 1
        /\ screen.fallback[1].estimated_savings = estimate_local_risk(session.bill_text)[1]
        /\ screen.fallback[1].flags = estimate_local_risk(session.bill_text)[2]
        /\ screen.fallback[1].total_billed = parse_bill_input(session.bill_text).total_billed
        /\ screen.fallback[1].insurance_paid = parse_bill_input(session.bill_text).insurance_paid
        /\ screen.fallback[1].patient_responsibility
               = parse_bill_input(session.bill_text).patient_responsibility
        /\ screen.analysis = <<>>
        /\ screen.chat = <<>>
        /\ ~session.analysis_ready

\* a generation fails although the analysis of an earlier run is in the session
\* (last_analysis is set, no file is left in an uploader), and the local estimate
\* has found a flag
C13_Witness ==
    /\ GenerationFailed
    /\ session.last_analysis # ""
    /\ widgets.provider_upload = <<>>
    /\ widgets.insurance_upload = <<>>
    /\ screen.fallback # <<>>
    /\ screen.fallback[1].flags # <<>>

\* C15: in the no-narrative path (generation unavailable, local fallback only) a
\* risk score is produced, and it is an integer between 0 and 95.
C15_FallbackRiskScore ==
    GenerationFailed =>
        /\ screen.fallback # <<>>
        /\ "risk_score" \in DOMAIN screen.fallback[1]
        /\ screen.fallback[1].risk_score \in 0..95

\* a run of main has ended
MainReturned == fn = "main" /\ pc = "done"

\* the narratives stream_claude can stream to its end
FullTexts == {generation.text : generation \in {g \in Generations : ~g.raises /\ g.text # ""}}

\* C22: render_analysis (and so parse_structured_sections) runs only after the
\* generation stream of the same run has finished and returned a non-empty full
\* text, on that text, or, in a run without generation, on the stored
\* last_analysis, which is the full text of an earlier completed generation; it
\* never runs on a partial stream.
C22_OnlyFullTextSegmented ==
    (MainReturned /\ ret.calls.render_analysis # <<>>) =>
        LET raw_output == ret.calls.render_analysis[1][1]
        IN  IF ret.calls.stream_claude # <<>>
            THEN /\ args[1] = "analyze"
                 /\ ~args[2].raises
                 /\ args[2].text # ""
                 /\ raw_output = args[2].text
            ELSE /\ raw_output = session.last_analysis
                 /\ prev.generated # <<>>
                 /\ raw_output = prev.generated[1].full_text
                 /\ raw_output \in FullTexts

\* a run without generation segments the stored narrative, after a generation that
\* raised in the middle of its stream was shown and not segmented
C22_Witness ==
    /\ MainReturned
    /\ ret.calls.stream_claude = <<>>
    /\ ret.calls.render_analysis # <<>>
    /\ ret.calls.render_analysis[1][1] = FlaggedNarrative
    /\ screen.analysis # <<>>
    /\ \E generation \in Generations :
          /\ generation.raises
          /\ generation.text # ""
          /\ generation.text # session.last_analysis

\* the run of main that has ended was started by a submitted question, in a
\* session that held a completed analysis: Analyze was not clicked, the inputs
\* were as they had been
RerunAfterAnalysis ==
    /\ MainReturned
    /\ args[1] = "question"
    /\ prev.before.analysis_ready

\* C25: after a successful analysis, a later run of main in which Analyze is not
\* clicked and the inputs are unchanged (the run a submitted question starts,
\* also while the uploaded bill is still in the uploader) keeps analysis_ready
\* True and chat_history intact, and renders the stored analysis and the chat
\* again.
C25_AnalysisSurvivesRerun ==
    RerunAfterAnalysis =>
        /\ session.analysis_ready
        /\ Len(session.chat_history) > Len(prev.before.chat_history)
        /\ SubSeq(session.chat_history, 1, Len(prev.before.chat_history))
               = prev.before.chat_history
        /\ screen.analysis # <<>>
        /\ screen.chat # <<>>

\* C26: in every reachable session state, analysis_ready = True implies that
\* last_analysis is a non-empty narrative and that last_bill and last_insurance
\* are the bill and insurance texts stream_claude was given when it generated
\* that narrative.
C26_ReadyMeansStoredAnalysis ==
    (fn = "main" /\ session.analysis_ready) =>
        /\ session.last_analysis # ""
        /\ prev.generated # <<>>
        /\ session.last_analysis = prev.generated[1].full_text
        /\ session.last_bill = prev.generated[1].bill_text
        /\ session.last_insurance = prev.generated[1].insurance_text

\* an analysis of a bill with an insurance text is ready, and a question about it
\* has been answered
C26_Witness ==
    /\ MainReturned
    /\ session.analysis_ready
    /\ session.last_bill = BillFile
    /\ session.last_insurance # ""
    /\ session.last_analysis = CleanNarrative
    /\ Len(session.chat_history) = 2

\* user and assistant take turns in the list, the user first
C27_Alternates(messages) ==
    \A i \in 1..Len(messages) :
        messages[i].role = (IF i % 2 = 1 THEN "user" ELSE "assistant")

\* C27: in chat_history every recorded user question is followed by exactly one
\* assistant reply before the next user question is recorded, so the message
\* list sent to the chat service alternates user and assistant roles, also after
\* a chat request has failed.
C27_RolesAlternate ==
    MainReturned =>
        /\ C27_Alternates(session.chat_history)
        /\ \A i \in 1..Len(screen.chat) : C27_Alternates(screen.chat[i].request)

\* the run that has ended has read a file from an uploader
UploadSucceeded ==
    /\ MainReturned
    /\ screen.page = "app"
    /\ \E upload \in {widgets.provider_upload, widgets.insurance_upload} :
          upload # <<>> /\ extract_text_from_upload(upload[1]).ok

\* C28: every Analyze click that passes the input checks and every successful
\* file upload empties chat_history and sets analysis_ready to False before
\* anything new is analysed: when such a run ends chat_history holds no message
\* recorded before it, and analysis_ready is True only for the analysis the run
\* itself has completed.
C28_ChatStartsEmpty ==
    (GenerationCalled \/ UploadSucceeded) =>
        /\ session.chat_history = <<>>
        /\ \A i \in 1..Len(screen.chat) : screen.chat[i].messages = <<>>
        /\ session.analysis_ready => (GenerationCalled /\ ~GenerationFailed)

\* Analyze is clicked in a session that holds an analysis and a chat about it, no
\* file is in an uploader, and the new analysis starts with an empty chat; the
\* generation fails, and the old analysis is not ready any more
C28_Witness ==
    /\ GenerationFailed
    /\ prev.before.analysis_ready
    /\ Len(prev.before.chat_history) = 2
    /\ widgets.provider_upload = <<>>
    /\ widgets.insurance_upload = <<>>
    /\ session.chat_history = <<>>
    /\ ~session.analysis_ready
    /\ session.last_analysis # ""

(***************************************************************************)
(* Claims about extract_money                                              *)
(***************************************************************************)
MoneyReturned == fn = "extract_money" /\ pc = "done"

\* C5: for every text fragment extract_money returns a value that is >= 0.0 and
\* finite, and it returns 0.0 for the empty string and for a fragment in which
\* the pattern matches nowhere.
C5_NonNegativeFinite ==
    MoneyReturned =>
        /\ ret >= 0
        /\ ret # Inf
        /\ (args[1] = "" \/ ~MoneyMatches(args[1])) => (ret = 0)

HasDigit(value) == \E i \in 1..Len(value) : IsDigit(Ch(value, i))

\* the run C6 describes: it starts at the first digit of the fragment, goes on over
\* digits and thousands separators and ends with an optional decimal part
FirstDigitRun(value) ==
    LET d == CHOOSE i \in 1..Len(value) :
                IsDigit(Ch(value, i)) /\ \A j \in 1..(i - 1) : ~IsDigit(Ch(value, j))
        e == SkipDecimals(value, SkipMoneyChars(value, d))
    IN  SubSeq(value, d, e - 1)

\* C6: for a fragment that holds a digit, extract_money returns the value of the
\* first run of digit groups with the separators removed, whatever text (letters,
\* punctuation, commas) precedes that run.
C6_ValueOfFirstDigitRun ==
    (MoneyReturned /\ HasDigit(args[1])) =>
        ret = ParseFloat(Replace(FirstDigitRun(args[1]), ","))

====
